---- MODULE Spec2Model ----
(***************************************************************************)
(* A model of the Monkey interpreter front end and evaluator:              *)
(*   src/src/lexer/lexer.rs    Lexer::next_token and its helpers           *)
(*   src/src/parser/parser.rs  the two-token-lookahead Pratt parser        *)
(*   src/src/ast/ast.rs        the AST and its printer (Display)           *)
(*   src/src/eval/eval.rs      the tree-walking evaluator                  *)
(*   src/src/eval/object.rs    the runtime objects and their Display       *)
(*                                                                         *)
(* Source text and token literals are sequences of one-character strings   *)
(* (a literal is a slice of the source); printed ASTs and rendered objects *)
(* are TLA+ strings built with \o, and Str turns a literal into one.       *)
(* Option<T> is [tag |-> "Some", v |-> x] or [tag |-> "None"]; a Rust      *)
(* panic (todo!(), unwrap() on None, division by zero) is the outcome      *)
(* [tag |-> "Panic"].                                                      *)
(***************************************************************************)
EXTENDS Integers, Sequences, FiniteSets, TLC

VARIABLES input, parser, program, pc, idx, result, value, output,
          lexer, lexed, overflow_checks

vars == <<input, parser, program, pc, idx, result, value, output,
          lexer, lexed, overflow_checks>>

None == [tag |-> "None"]

Some(x) == [tag |-> "Some", v |-> x]

Panic == [tag |-> "Panic"]

(***************************************************************************)
(* Characters (src/src/lexer/lexer.rs uses char::is_alphabetic,            *)
(* is_alphanumeric, is_numeric, is_ascii_digit, is_whitespace).            *)
(* "U+0663" stands for the single non-ASCII character ARABIC-INDIC DIGIT   *)
(* THREE: numeric and alphanumeric, not an ASCII digit, not alphabetic.    *)
(***************************************************************************)
AsciiDigits == {"0", "1", "2", "3", "4", "5", "6", "7", "8", "9"}

Letters == {"a", "b", "c", "d", "e", "f", "i", "l", "n", "r", "s", "t", "u", "x", "y"}

IsAsciiDigit(c) == c \in AsciiDigits

IsNumeric(c) == c \in AsciiDigits \cup {"U+0663"}

IsAlphabetic(c) == c \in Letters

IsAlphanumeric(c) == IsAlphabetic(c) \/ IsNumeric(c)

IsWhitespace(c) == c \in {" ", "\t", "\n", "\r"}

(***************************************************************************)
(* Tokens (src/src/lexer/token.rs).                                        *)
(***************************************************************************)
Token(token_type, literal) == [token_type |-> token_type, literal |-> literal]

DefaultToken == Token("NotSet", <<>>)

\* A literal (&str) as a TLA+ string.
RECURSIVE Str(_)
Str(literal) == IF literal = <<>> THEN "" ELSE Head(literal) \o Str(Tail(literal))

lookup_identifier(ident) ==
    CASE Str(ident) = "fn" -> "Function"
      [] Str(ident) = "let" -> "Let"
      [] Str(ident) = "true" -> "True"
      [] Str(ident) = "false" -> "False"
      [] Str(ident) = "else" -> "Else"
      [] Str(ident) = "if" -> "If"
      [] Str(ident) = "return" -> "Return"
      [] OTHER -> "Ident"

(***************************************************************************)
(* The lexer.  Its state is `position`, the number of characters of        *)
(* `src` consumed so far (the Peekable<Chars> iterator is always at        *)
(* `position`; the code counts bytes, which slices the same characters).   *)
(* Each operator returns the new position, and next_token the token with   *)
(* it.                                                                     *)
(***************************************************************************)
peek(src, position) == IF position < Len(src) THEN Some(src[position + 1]) ELSE None

RECURSIVE skip_whitespace(_, _)
skip_whitespace(src, position) ==
    LET ch == peek(src, position)
    IN IF ch.tag = "Some" /\ IsWhitespace(ch.v)
       THEN skip_whitespace(src, position + 1)
       ELSE position

\* The slice &input[start..position].
Slice(src, start, position) == SubSeq(src, start + 1, position)

\* read_identifier going on over letters and underscores only
RECURSIVE read_identifier_of_letters(_, _)
read_identifier_of_letters(src, position) ==
    LET ch == peek(src, position)
    IN IF ch.tag = "Some" /\ (IsAlphabetic(ch.v) \/ ch.v = "_")
       THEN read_identifier_of_letters(src, position + 1)
       ELSE position

RECURSIVE read_identifier(_, _)
read_identifier(src, position) ==
    LET ch == peek(src, position)
    IN IF ch.tag = "Some" /\ (IsAlphanumeric(ch.v) \/ ch.v = "_")
       THEN read_identifier(src, position + 1)
       ELSE position

RECURSIVE read_number(_, _)
read_number(src, position) ==
    LET ch == peek(src, position)
    IN IF ch.tag = "Some" /\ IsNumeric(ch.v)
       THEN read_number(src, position + 1)
       ELSE position

Lexed(tok, position) == [tok |-> tok, position |-> position]

\* the arm for the end of the input naming its token
eof_token_named(start) == Lexed(Token("Eof", <<"E", "o", "f">>), start)

\* The arm `None => Token::new(TokenType::Eof, "")`: nothing is consumed.
eof_token(start) == Lexed(Token("Eof", <<>>), start)

\* the arm `Some('=')` without its lookahead
assign_or_eq_without_peek(src, position) == Lexed(Token("Assign", <<"=">>), position)

\* The arm `Some('=')`, entered with the `=` consumed (the lexer at position).
assign_or_eq(src, position) ==
    IF peek(src, position) = Some("=") THEN Lexed(Token("Eq", <<"=", "=">>), position + 1)
    ELSE Lexed(Token("Assign", <<"=">>), position)

\* The arm `Some('!')`, entered with the `!` consumed.
\* the `!` arm leaving the lexer where it was before the `!` when no `=` follows
bang_or_not_eq_without_next_char(src, position) ==
    IF peek(src, position) = Some("=")
    THEN Lexed(Token("NotEq", <<"!", "=">>), position + 1)
    ELSE Lexed(Token("Bang", <<"!">>), position - 1)

bang_or_not_eq(src, position) ==
    IF peek(src, position) = Some("=")
    THEN Lexed(Token("NotEq", <<"!", "=">>), position + 1)
    ELSE Lexed(Token("Bang", <<"!">>), position)

Lexer_next_token(src, position0) ==
    LET start == skip_whitespace(src, position0)
        c == peek(src, start)
        position == start + 1
    IN IF c.tag = "None" THEN eof_token(start)
       ELSE CASE c.v = "=" -> assign_or_eq(src, position)
              [] c.v = "{" -> Lexed(Token("LBrace", <<"{">>), position)
              [] c.v = "}" -> Lexed(Token("RBrace", <<"}">>), position)
              [] c.v = "+" -> Lexed(Token("Plus", <<"+">>), position)
              [] c.v = "-" -> Lexed(Token("Minus", <<"-">>), position)
              [] c.v = "<" -> Lexed(Token("Lt", <<"<">>), position)
              [] c.v = ">" -> Lexed(Token("Gt", <<">">>), position)
              [] c.v = "!" -> bang_or_not_eq(src, position)
              [] c.v = "*" -> Lexed(Token("Asterisk", <<"*">>), position)
              [] c.v = "/" -> Lexed(Token("Slash", <<"/">>), position)
              [] c.v = "," -> Lexed(Token("Comma", <<",">>), position)
              [] c.v = ";" -> Lexed(Token("Semicolon", <<";">>), position)
              [] c.v = "(" -> Lexed(Token("LParen", <<"(">>), position)
              [] c.v = ")" -> Lexed(Token("RParen", <<")">>), position)
              [] OTHER ->
                   IF IsAlphabetic(c.v) \/ c.v = "_"
                   THEN LET end == read_identifier(src, position)
                            literal == Slice(src, start, end)
                        IN Lexed(Token(lookup_identifier(literal), literal), end)
                   ELSE IF IsAsciiDigit(c.v)
                   THEN LET end == read_number(src, position)
                        IN Lexed(Token("Int", Slice(src, start, end)), end)
                   ELSE Lexed(Token("Illegal", <<"I", "l", "l", "e", "g", "a", "l">>), position)

(***************************************************************************)
(* Operator binding powers (src/src/core/precedence.rs).                   *)
(***************************************************************************)
LOWEST == 1

EQUALS == 2

LESSGREATER == 3

SUM == 4

PRODUCT == 5

PREFIX == 6

CALL == 7

(***************************************************************************)
(* The AST (src/src/ast/ast.rs).  A node is a record named by `node`.      *)
(* parser.rs builds a Let without a value expression and a Return whose    *)
(* value is Expression::None: it parses no expression for either.          *)
(***************************************************************************)
ExpressionNone == [node |-> "None"]

Identifier(token) == [node |-> "Identifier", token |-> token, value |-> Str(token.literal)]

LetStatement(token, name) ==
    [node |-> "Let", token |-> token, name |-> name, value |-> ExpressionNone]

ReturnStatement(token, val) == [node |-> "Return", token |-> token, value |-> val]

BlockStatement(token, statements) ==
    [node |-> "Block", token |-> token, statements |-> statements]

ExpressionStatement(expression) == [node |-> "Expression", expression |-> expression]

IntegerExpression(token, val) == [node |-> "Integer", token |-> token, value |-> val]

BooleanExpression(token, val) == [node |-> "Boolean", token |-> token, value |-> val]

PrefixExpression(token, operator, right) ==
    [node |-> "Prefix", token |-> token, operator |-> operator, right |-> right]

InfixExpression(token, operator, right, left) ==
    [node |-> "Infix", token |-> token, operator |-> operator, right |-> right,
     left |-> left]

IfExpression(token, condition, consequence, alternative) ==
    [node |-> "If", token |-> token, condition |-> condition,
     consequence |-> consequence, alternative |-> alternative]

FunctionExpression(token, parameters, body) ==
    [node |-> "Function", token |-> token, parameters |-> parameters, body |-> body]

CallExpression(token, function, arguments) ==
    [node |-> "Call", token |-> token, function |-> function, arguments |-> arguments]

(***************************************************************************)
(* The parser (src/src/parser/parser.rs).  A parser state p is the record  *)
(* of the struct's fields: the lexer (its position in `input`),            *)
(* curr_token, peek_token and errors.  `hang` is set when a loop of the    *)
(* code can never exit: its body leaves the parser state as it was while   *)
(* its condition stays true.  Each parse operator returns Parsed(p, r):    *)
(* the parser state after the call and the call's result.                  *)
(***************************************************************************)
Parsed(p, r) == [p |-> p, r |-> r]

(***************************************************************************)
(* A call self.method(arg) of one parser method by another is written      *)
(* self("method", p, arg), with p the parser state the call is made on     *)
(* (arg is <<>> for a method without arguments).  self, defined after the  *)
(* methods, only dispatches to the method named.                           *)
(***************************************************************************)
RECURSIVE self(_, _, _)

\* next_token asking the lexer twice and dropping the first token
next_token_skipping(p) ==
    LET l == Lexer_next_token(input, Lexer_next_token(input, p.position).position)
    IN [p EXCEPT !.curr_token = p.peek_token, !.peek_token = l.tok,
                 !.position = l.position]

next_token(p) ==
    LET l == Lexer_next_token(input, p.position)
    IN [p EXCEPT !.curr_token = p.peek_token, !.peek_token = l.tok,
                 !.position = l.position]

Parser_new ==
    self("next_token",
         self("next_token", [position |-> 0, curr_token |-> DefaultToken,
                             peek_token |-> DefaultToken, errors |-> <<>>,
                             hang |-> FALSE], <<>>), <<>>)

curr_token_is(p, token_type) == p.curr_token.token_type = token_type

peek_token_is(p, token_type) == p.peek_token.token_type = token_type

peek_error(p, token) ==
    [p EXCEPT !.errors = Append(@, "expected next token to be " \o token \o ", got "
                                    \o p.peek_token.token_type \o " instead")]

\* expect_peek consuming the unexpected token as well
expect_peek_consuming(p, token_type) ==
    IF peek_token_is(p, token_type)
    THEN [p |-> self("next_token", p, <<>>), ok |-> TRUE]
    ELSE [p |-> self("next_token", peek_error(p, token_type), <<>>), ok |-> FALSE]

\* Returns [p, ok]: the parser state after the call and the bool returned.
expect_peek(p, token_type) ==
    IF peek_token_is(p, token_type)
    THEN [p |-> self("next_token", p, <<>>), ok |-> TRUE]
    ELSE [p |-> peek_error(p, token_type), ok |-> FALSE]

\* get_precedence_of_token with the Sum and Product rows exchanged
get_precedence_of_token_exchanged(token_type) ==
    CASE token_type \in {"Eq", "NotEq"} -> EQUALS
      [] token_type \in {"Lt", "Gt"} -> LESSGREATER
      [] token_type \in {"Plus", "Minus"} -> PRODUCT
      [] token_type \in {"Asterisk", "Slash"} -> SUM
      [] token_type = "LParen" -> CALL
      [] OTHER -> LOWEST

get_precedence_of_token(token_type) ==
    CASE token_type \in {"Eq", "NotEq"} -> EQUALS
      [] token_type \in {"Lt", "Gt"} -> LESSGREATER
      [] token_type \in {"Plus", "Minus"} -> SUM
      [] token_type \in {"Asterisk", "Slash"} -> PRODUCT
      [] token_type = "LParen" -> CALL
      [] OTHER -> LOWEST

peek_precedence(p) == get_precedence_of_token(p.peek_token.token_type)

curr_precedence(p) == get_precedence_of_token(p.curr_token.token_type)

\* The loop `while !self.curr_token_is(TokenType::Semicolon) { self.next_token(); }`
\* of parse_return_statement and parse_let_statement.
RECURSIVE skip_to_semicolon(_)
skip_to_semicolon(p) ==
    IF curr_token_is(p, "Semicolon") THEN p
    ELSE IF self("next_token", p, <<>>) = p THEN [p EXCEPT !.hang = TRUE]
    ELSE skip_to_semicolon(self("next_token", p, <<>>))

parse_return_statement(p) ==
    LET stmt == ReturnStatement(p.curr_token, ExpressionNone)
    IN Parsed(skip_to_semicolon(p), Some(stmt))

parse_let_statement(p) ==
    LET e1 == self("expect_peek", p, "Ident")
        stmt == LetStatement(e1.p.curr_token, Identifier(e1.p.curr_token))
        e2 == self("expect_peek", e1.p, "Assign")
    IN IF ~e1.ok THEN Parsed(e1.p, None)
       ELSE IF ~e2.ok THEN Parsed(e2.p, None)
       ELSE Parsed(skip_to_semicolon(e2.p), Some(stmt))

parse_identifier(p) == Identifier(p.curr_token)

\* str::parse::<i64>: the decimal value of a run of ASCII digits, an error for
\* anything else.  (The literals of the model stay far below i64::MAX.)
RECURSIVE DecimalValue(_, _)
DecimalValue(literal, acc) ==
    IF literal = <<>> THEN acc
    ELSE DecimalValue(Tail(literal),
                      acc * 10 + (CHOOSE d \in 0..9 : ToString(d) = Head(literal)))

\* i64::MAX and i64::MIN, scaled to a width that TLC's 32-bit integers can hold.
i64_MAX == 32767

i64_MIN == -i64_MAX - 1

\* str::parse::<i64> of a token literal (which never has a sign)
parse_i64(literal) ==
    IF /\ literal # <<>>
       /\ \A i \in 1..Len(literal) : IsAsciiDigit(literal[i])
       /\ DecimalValue(literal, 0) <= i64_MAX
    THEN Some(DecimalValue(literal, 0))
    ELSE None

parse_integer_literal(p) ==
    LET literal == parse_i64(p.curr_token.literal)
    IN IF literal.tag = "None"
       THEN Parsed([p EXCEPT !.errors = Append(@, "Could not parse "
                                 \o Str(p.curr_token.literal) \o " as integer")], None)
       ELSE Parsed(p, Some(IntegerExpression(p.curr_token, literal.v)))

parse_boolean_expression(p) ==
    Parsed(p, Some(BooleanExpression(p.curr_token, curr_token_is(p, "True"))))

\* parse_prefix_expression parsing its operand at the lowest precedence
parse_prefix_expression_at_lowest(p) ==
    LET token == p.curr_token
        operator == Str(p.curr_token.literal)
        right == self("parse_expression_w_precedence", self("next_token", p, <<>>), LOWEST)
    IN Parsed(right.p, Some(PrefixExpression(token, operator, right.r)))

parse_prefix_expression(p) ==
    LET token == p.curr_token
        operator == Str(p.curr_token.literal)
        right == self("parse_expression_w_precedence", self("next_token", p, <<>>), PREFIX)
    IN Parsed(right.p, Some(PrefixExpression(token, operator, right.r)))

parse_infix_expression(p, left) ==
    LET token == p.curr_token
        operator == Str(p.curr_token.literal)
        precedence == curr_precedence(p)
        right == self("parse_expression_w_precedence", self("next_token", p, <<>>), precedence)
    IN IF right.r.tag = "None" THEN Parsed(right.p, None)
       ELSE Parsed(right.p, Some(InfixExpression(token, operator, right.r.v, left)))

\* parse_grouped_expression parsing the inside at the precedence of a prefix
\* operand instead of Precedence::LOWEST
parse_grouped_expression_not_reset(p) ==
    LET expression == self("parse_expression_w_precedence", self("next_token", p, <<>>), PREFIX)
        closed == self("expect_peek", expression.p, "RParen")
    IN IF expression.r.tag = "None" THEN Parsed(expression.p, None)
       ELSE IF closed.ok THEN Parsed(closed.p, expression.r)
       ELSE Parsed(closed.p, None)

parse_grouped_expression(p) ==
    LET expression == self("parse_expression_w_precedence", self("next_token", p, <<>>), LOWEST)
        closed == self("expect_peek", expression.p, "RParen")
    IN IF expression.r.tag = "None" THEN Parsed(expression.p, None)
       ELSE IF closed.ok THEN Parsed(closed.p, expression.r)
       ELSE Parsed(closed.p, None)

\* The while loop of parse_block_statement.
RECURSIVE block_loop(_, _)
block_loop(p, statements) ==
    IF ~curr_token_is(p, "RBrace") /\ ~curr_token_is(p, "Eof")
    THEN LET stmt == self("parse_statement", p, LOWEST)
         IN block_loop(self("next_token", stmt.p, <<>>),
                       IF stmt.r.tag = "Some" THEN Append(statements, stmt.r.v)
                       ELSE statements)
    ELSE Parsed(p, statements)

parse_block_statement(p) ==
    LET token == p.curr_token
        body == block_loop(p, <<>>)
    IN Parsed(body.p, BlockStatement(token, body.r))

parse_if_expression(p) ==
    LET token == p.curr_token
        e1 == self("expect_peek", p, "LParen")
        condition == self("parse_expression_w_precedence", self("next_token", e1.p, <<>>), LOWEST)
        e2 == self("expect_peek", condition.p, "RParen")
        e3 == self("expect_peek", e2.p, "LBrace")
        consequence == self("parse_block_statement", e3.p, <<>>)
    IN IF ~e1.ok THEN Parsed(e1.p, None)
       ELSE IF condition.r.tag = "None" THEN Parsed(condition.p, None)
       ELSE IF ~e2.ok THEN Parsed(e2.p, None)
       ELSE IF ~e3.ok THEN Parsed(e3.p, None)
       ELSE Parsed(consequence.p,
                   Some(IfExpression(token, condition.r.v, consequence.r, None)))

\* The while loop of parse_function_parameters.
RECURSIVE function_parameters_loop(_, _)
function_parameters_loop(p, identifiers) ==
    IF peek_token_is(p, "Comma")
    THEN LET p2 == self("next_token", self("next_token", p, <<>>), <<>>)
         IN function_parameters_loop(p2, Append(identifiers, Identifier(p2.curr_token)))
    ELSE Parsed(p, identifiers)

parse_function_parameters(p) ==
    IF peek_token_is(p, "RParen") THEN Parsed(self("next_token", p, <<>>), Some(<<>>))
    ELSE LET p1 == self("next_token", p, <<>>)
             rest == function_parameters_loop(p1, <<Identifier(p1.curr_token)>>)
             closed == self("expect_peek", rest.p, "RParen")
         IN IF ~closed.ok THEN Parsed(closed.p, None)
            ELSE Parsed(closed.p, Some(rest.r))

parse_function_literal(p) ==
    LET token == p.curr_token
        e1 == self("expect_peek", p, "LParen")
        parameters == self("parse_function_parameters", e1.p, <<>>)
        e2 == self("expect_peek", parameters.p, "LBrace")
        body == self("parse_block_statement", e2.p, <<>>)
    IN IF ~e1.ok THEN Parsed(e1.p, None)
       ELSE IF parameters.r.tag = "None" THEN Parsed(parameters.p, None)
       ELSE IF ~e2.ok THEN Parsed(e2.p, None)
       ELSE Parsed(body.p, Some(FunctionExpression(token, parameters.r.v, body.r)))

\* The while loop of parse_call_arguments; r is None once an argument fails to parse.
RECURSIVE call_arguments_loop(_, _)
call_arguments_loop(p, args) ==
    IF peek_token_is(p, "Comma")
    THEN LET arg == self("parse_expression_w_precedence", self("next_token", self("next_token", p, <<>>), <<>>), LOWEST)
         IN IF arg.r.tag = "None" THEN Parsed(arg.p, None)
            ELSE call_arguments_loop(arg.p, Append(args, arg.r.v))
    ELSE Parsed(p, Some(args))

parse_call_arguments(p) ==
    IF peek_token_is(p, "RParen") THEN Parsed(self("next_token", p, <<>>), None)
    ELSE LET first == self("parse_expression_w_precedence", self("next_token", p, <<>>), LOWEST)
             rest == call_arguments_loop(first.p, <<first.r.v>>)
             closed == self("expect_peek", rest.p, "RParen")
         IN IF first.r.tag = "None" THEN Parsed(first.p, None)
            ELSE IF rest.r.tag = "None" THEN Parsed(rest.p, None)
            ELSE IF ~closed.ok THEN Parsed(closed.p, None)
            ELSE Parsed(closed.p, rest.r)

parse_call_expression(p, expression) ==
    LET token == p.curr_token
        arguments == self("parse_call_arguments", p, <<>>)
    IN Parsed(arguments.p, Some(CallExpression(token, expression, arguments.r)))

\* parse_expression_prefix recording a diagnostic for a token without a prefix
\* parse rule
parse_expression_prefix_reporting(p) ==
    CASE p.curr_token.token_type = "Ident" -> Parsed(p, Some(parse_identifier(p)))
      [] p.curr_token.token_type = "Int" -> self("parse_integer_literal", p, <<>>)
      [] p.curr_token.token_type \in {"Plus", "Minus", "Bang"} -> self("parse_prefix_expression", p, <<>>)
      [] p.curr_token.token_type \in {"True", "False"} -> self("parse_boolean_expression", p, <<>>)
      [] p.curr_token.token_type = "LParen" -> self("parse_grouped_expression", p, <<>>)
      [] p.curr_token.token_type = "If" -> self("parse_if_expression", p, <<>>)
      [] p.curr_token.token_type = "Function" -> self("parse_function_literal", p, <<>>)
      [] OTHER -> Parsed([p EXCEPT !.errors = Append(@, "no prefix parse function for "
                                                        \o p.curr_token.token_type \o " found")],
                         None)

parse_expression_prefix(p) ==
    CASE p.curr_token.token_type = "Ident" -> Parsed(p, Some(parse_identifier(p)))
      [] p.curr_token.token_type = "Int" -> self("parse_integer_literal", p, <<>>)
      [] p.curr_token.token_type \in {"Plus", "Minus", "Bang"} -> self("parse_prefix_expression", p, <<>>)
      [] p.curr_token.token_type \in {"True", "False"} -> self("parse_boolean_expression", p, <<>>)
      [] p.curr_token.token_type = "LParen" -> self("parse_grouped_expression", p, <<>>)
      [] p.curr_token.token_type = "If" -> self("parse_if_expression", p, <<>>)
      [] p.curr_token.token_type = "Function" -> self("parse_function_literal", p, <<>>)
      [] OTHER -> Parsed(p, None)

parse_expression_infix(p, expression) ==
    CASE p.curr_token.token_type \in
             {"Eq", "NotEq", "Minus", "Plus", "Asterisk", "Slash", "Gt", "Lt"} ->
           self("parse_infix_expression", p, expression)
      [] p.curr_token.token_type = "LParen" -> self("parse_call_expression", p, expression)
      [] OTHER -> Parsed(p, None)

\* The while loop of parse_expression_w_precedence.
RECURSIVE infix_loop(_, _, _)
infix_loop(p, left, prededence) ==
    IF ~peek_token_is(p, "Semicolon") /\ prededence < peek_precedence(p)
    THEN LET infix == self("parse_expression_infix", self("next_token", p, <<>>), left)
         IN infix_loop(infix.p, IF infix.r.tag = "Some" THEN infix.r.v ELSE left,
                       prededence)
    ELSE Parsed(p, Some(left))

parse_expression_w_precedence(p, prededence) ==
    LET left == self("parse_expression_prefix", p, <<>>)
    IN IF left.r.tag = "None" THEN Parsed(left.p, None)
       ELSE infix_loop(left.p, left.r.v, prededence)

parse_expression_statement(p) ==
    LET e == self("parse_expression_w_precedence", p, LOWEST)
    IN IF e.r.tag = "None" THEN Parsed(e.p, None)
       ELSE Parsed(IF peek_token_is(e.p, "Semicolon") THEN self("next_token", e.p, <<>>) ELSE e.p,
                   Some(ExpressionStatement(e.r.v)))

parse_statement(p) ==
    CASE p.curr_token.token_type = "Let" -> self("parse_let_statement", p, <<>>)
      [] p.curr_token.token_type = "Return" -> self("parse_return_statement", p, <<>>)
      [] OTHER -> self("parse_expression_statement", p, <<>>)

\* self.<method>(arg) on the parser state p
self(method, p, arg) ==
    CASE method = "next_token" -> next_token(p)
      [] method = "expect_peek" -> expect_peek(p, arg)
      [] method = "parse_return_statement" -> parse_return_statement(p)
      [] method = "parse_let_statement" -> parse_let_statement(p)
      [] method = "parse_integer_literal" -> parse_integer_literal(p)
      [] method = "parse_boolean_expression" -> parse_boolean_expression(p)
      [] method = "parse_prefix_expression" -> parse_prefix_expression(p)
      [] method = "parse_infix_expression" -> parse_infix_expression(p, arg)
      [] method = "parse_grouped_expression" -> parse_grouped_expression(p)
      [] method = "parse_block_statement" -> parse_block_statement(p)
      [] method = "parse_if_expression" -> parse_if_expression(p)
      [] method = "parse_function_parameters" -> parse_function_parameters(p)
      [] method = "parse_function_literal" -> parse_function_literal(p)
      [] method = "parse_call_arguments" -> parse_call_arguments(p)
      [] method = "parse_call_expression" -> parse_call_expression(p, arg)
      [] method = "parse_expression_prefix" -> parse_expression_prefix(p)
      [] method = "parse_expression_infix" -> parse_expression_infix(p, arg)
      [] method = "parse_expression_w_precedence" -> parse_expression_w_precedence(p, arg)
      [] method = "parse_expression_statement" -> parse_expression_statement(p)
      [] method = "parse_statement" -> parse_statement(p)

(***************************************************************************)
(* The AST printer (src/src/ast/ast.rs: Expression::token_literal and the  *)
(* Display impls).                                                         *)
(***************************************************************************)
RECURSIVE Expression_token_literal(_), Statement_fmt(_), Block_fmt(_),
          join_expressions(_, _)

bool_to_string(b) == IF b THEN "true" ELSE "false"

\* .iter().map(|f| f.to_string()).collect::<Vec<_>>().join(sep) over identifiers
RECURSIVE join_identifiers(_, _)
join_identifiers(identifiers, sep) ==
    IF identifiers = <<>> THEN ""
    ELSE IF Len(identifiers) = 1 THEN Str(identifiers[1].token.literal)
    ELSE Str(identifiers[1].token.literal) \o sep \o join_identifiers(Tail(identifiers), sep)

join_expressions(expressions, sep) ==
    IF expressions = <<>> THEN ""
    ELSE IF Len(expressions) = 1 THEN Expression_token_literal(expressions[1])
    ELSE Expression_token_literal(expressions[1]) \o sep
             \o join_expressions(Tail(expressions), sep)

Expression_token_literal(e) ==
    CASE e.node = "Integer" -> Str(e.token.literal)
      [] e.node = "Prefix" ->
           IF e.right.tag = "Some" THEN e.operator \o Expression_token_literal(e.right.v)
           ELSE "(" \o e.operator \o "None" \o ")"
      [] e.node = "Identifier" -> e.value
      [] e.node = "None" -> ""
      [] e.node = "Infix" ->
           "(" \o Expression_token_literal(e.left) \o " " \o e.operator \o " "
               \o Expression_token_literal(e.right) \o ")"
      [] e.node = "If" ->
           IF e.alternative.tag = "Some"
           THEN "if " \o Expression_token_literal(e.condition) \o " "
                    \o Statement_fmt(e.consequence) \o " else "
                    \o Statement_fmt(e.alternative.v)
           ELSE "if " \o Expression_token_literal(e.condition) \o " { "
                    \o Statement_fmt(e.consequence) \o " }"
      [] e.node = "Function" ->
           "fn (" \o join_identifiers(e.parameters, " , ") \o ") { "
               \o Statement_fmt(e.body) \o " }"
      [] e.node = "Call" ->
           Expression_token_literal(e.function) \o "("
               \o (IF e.arguments.tag = "Some" THEN join_expressions(e.arguments.v, ", ")
                   ELSE "")
               \o ")"
      [] e.node = "Boolean" -> bool_to_string(e.value)

\* The for loop of Display for Statement::Block.
Block_fmt(statements) ==
    IF statements = <<>> THEN ""
    ELSE Statement_fmt(Head(statements)) \o Block_fmt(Tail(statements))

Statement_fmt(s) ==
    CASE s.node = "Let" ->
           Str(s.token.literal) \o " " \o Str(s.name.token.literal) \o " = "
               \o Expression_token_literal(s.value) \o ";"
      [] s.node = "Return" -> "return " \o Expression_token_literal(s.value) \o ";"
      [] s.node = "Expression" -> Expression_token_literal(s.expression)
      [] s.node = "Block" -> Block_fmt(s.statements)

(***************************************************************************)
(* Runtime objects and their Display (src/src/eval/object.rs).             *)
(***************************************************************************)
Object_Int(i) == [kind |-> "Int", value |-> i]

Object_Bool(b) == [kind |-> "Bool", value |-> b]

Object_Null == [kind |-> "Null"]

\* ReturnValue(Box<Option<Object>>): o is Some(object) or None
Object_ReturnValue(o) == [kind |-> "ReturnValue", value |-> o]

\* write!(f, "{}", i) for an i64
RECURSIVE digits_to_string(_)
digits_to_string(n) ==
    IF n < 10 THEN ToString(n) ELSE digits_to_string(n \div 10) \o ToString(n % 10)

i64_to_string(i) == IF i < 0 THEN "-" \o digits_to_string(-i) ELSE digits_to_string(i)

\* Some(text), or Panic when object.clone().unwrap() meets a ReturnValue(None).
RECURSIVE Object_fmt(_)
Object_fmt(object) ==
    CASE object.kind = "Int" -> Some(i64_to_string(object.value))
      [] object.kind = "Bool" -> Some(bool_to_string(object.value))
      [] object.kind = "Null" -> Some("nil")
      [] object.kind = "ReturnValue" ->
           IF object.value.tag = "None" THEN Panic ELSE Object_fmt(object.value.v)

(***************************************************************************)
(* The evaluator (src/src/eval/eval.rs).  eval returns Some(object), None  *)
(* or Panic; eval_block_statement an object or Panic.                      *)
(***************************************************************************)
\* is_truthy with the integer 0 taken as false
is_truthy_of_zero(object) ==
    CASE object.kind = "Int" -> object.value # 0
      [] object.kind = "Bool" -> object.value
      [] object.kind = "Null" -> FALSE
      [] OTHER -> TRUE

is_truthy(object) ==
    CASE object.kind = "Int" -> TRUE
      [] object.kind = "Bool" -> object.value
      [] object.kind = "Null" -> FALSE
      [] OTHER -> TRUE

\* division rounding toward minus infinity
flooring_div(l, r) ==
    LET q == (IF l < 0 THEN -l ELSE l) \div (IF r < 0 THEN -r ELSE r)
        exact == (IF l < 0 THEN -l ELSE l) % (IF r < 0 THEN -r ELSE r) = 0
    IN IF (l < 0) = (r < 0) THEN q ELSE IF exact THEN -q ELSE -q - 1

\* i64 division truncates toward zero.
truncating_div(l, r) ==
    LET q == (IF l < 0 THEN -l ELSE l) \div (IF r < 0 THEN -r ELSE r)
    IN IF (l < 0) = (r < 0) THEN q ELSE -q

\* two's-complement wrapping of a result that left the range of i64
wrapping(n) == ((n - i64_MIN) % (2 * (i64_MAX + 1))) + i64_MIN

\* The result of `+`, `-`, `*` or unary `-` on i64: a result outside the range
\* panics in a build with overflow checks and wraps in a build without.
arithmetic_result(n) ==
    IF i64_MIN <= n /\ n <= i64_MAX THEN Some(Object_Int(n))
    ELSE IF overflow_checks THEN Panic
    ELSE Some(Object_Int(wrapping(n)))

\* `l / r` on i64 panics on a zero divisor and on i64::MIN / -1 in every build.
eval_integer_infix_operation(operator, l, r) ==
    CASE operator = "+" -> arithmetic_result(l + r)
      [] operator = "-" -> arithmetic_result(l - r)
      [] operator = "*" -> arithmetic_result(l * r)
      [] operator = "/" -> IF r = 0 \/ (l = i64_MIN /\ r = -1) THEN Panic
                           ELSE Some(Object_Int(truncating_div(l, r)))
      [] operator = "<" -> Some(Object_Bool(l < r))
      [] operator = ">" -> Some(Object_Bool(l > r))
      [] operator = "!=" -> Some(Object_Bool(l # r))
      [] operator = "==" -> Some(Object_Bool(l = r))
      [] OTHER -> None

\* eval_infix_expression comparing two Booleans with == and != as well
eval_infix_expression_of_booleans(operator, lt, rt) ==
    IF lt.kind = "Int" /\ rt.kind = "Int"
    THEN eval_integer_infix_operation(operator, lt.value, rt.value)
    ELSE IF lt.kind = "Bool" /\ rt.kind = "Bool" /\ operator \in {"==", "!="}
    THEN Some(Object_Bool((lt.value = rt.value) = (operator = "==")))
    ELSE None

eval_infix_expression(operator, lt, rt) ==
    IF lt.kind = "Int" /\ rt.kind = "Int"
    THEN eval_integer_infix_operation(operator, lt.value, rt.value)
    ELSE None

eval_minus_prefix_operator_expression(right) ==
    IF right.kind = "Int" THEN arithmetic_result(-right.value) ELSE None

\* eval_bang_operator_expression with the integer 0 taken as false
eval_bang_operator_expression_of_zero(right) ==
    CASE right.kind = "Bool" -> Object_Bool(~right.value)
      [] right.kind = "Int" -> Object_Bool(right.value = 0)
      [] right.kind = "Null" -> Object_Bool(TRUE)
      [] OTHER -> Object_Null

eval_bang_operator_expression(right) ==
    CASE right.kind = "Bool" -> Object_Bool(~right.value)
      [] right.kind = "Int" -> Object_Bool(FALSE)
      [] right.kind = "Null" -> Object_Bool(TRUE)
      [] OTHER -> Object_Null

eval_prefix_expression(operator, right) ==
    CASE operator = "-" -> eval_minus_prefix_operator_expression(right)
      [] operator = "!" -> Some(eval_bang_operator_expression(right))
      [] OTHER -> None

RECURSIVE eval(_), eval_expression(_), eval_block_statement(_), block_eval_loop(_, _),
          eval_if_expression(_, _, _)

\* the loop of eval_block_statement without the arm that returns a ReturnValue
\* at once
RECURSIVE block_eval_loop_runs_on(_, _)
block_eval_loop_runs_on(statements, res) ==
    IF statements = <<>> THEN res.v
    ELSE LET r == eval(Head(statements))
         IN CASE r.tag = "Panic" -> Panic
              [] r.tag = "Some" -> block_eval_loop_runs_on(Tail(statements), Some(r.v))
              [] r.tag = "None" -> block_eval_loop_runs_on(Tail(statements), res)

\* The for loop of eval_block_statement; result is the Option in `result`.
block_eval_loop(statements, res) ==
    IF statements = <<>> THEN res.v
    ELSE LET r == eval(Head(statements))
         IN CASE r.tag = "Panic" -> Panic
              [] r.tag = "Some" /\ r.v.kind = "ReturnValue" -> r.v
              [] r.tag = "Some" /\ r.v.kind # "ReturnValue" ->
                   block_eval_loop(Tail(statements), Some(r.v))
              [] r.tag = "None" -> block_eval_loop(Tail(statements), res)

\* eval_block_statement giving the result of the last statement only, as
\* eval_program does
eval_block_statement_of_last_statement(statements) ==
    IF statements = <<>> THEN Object_Null
    ELSE LET r == eval(statements[Len(statements)])
         IN CASE r.tag = "Panic" -> Panic
              [] r.tag = "Some" -> r.v
              [] r.tag = "None" -> Object_Null

eval_block_statement(statements) == block_eval_loop(statements, Some(Object_Null))

eval_if_expression(condition, consequence, alternative) ==
    LET c == eval(ExpressionStatement(condition))
    IN IF c.tag # "Some" THEN c
       ELSE IF is_truthy(c.v) THEN eval(consequence)
       ELSE IF alternative.tag = "Some" THEN eval(alternative.v)
       ELSE None

\* The arm `ast::Statement::Expression(expression) => match expression { ... }`.
eval_expression(e) ==
    CASE e.node = "Integer" -> Some(Object_Int(e.value))
      [] e.node = "Boolean" -> Some(Object_Bool(e.value))
      [] e.node = "Prefix" ->
           IF e.right.tag = "None" THEN Panic
           ELSE LET rt == eval(ExpressionStatement(e.right.v))
                IN IF rt.tag # "Some" THEN rt ELSE eval_prefix_expression(e.operator, rt.v)
      [] e.node = "Infix" ->
           LET lt == eval(ExpressionStatement(e.left))
               rt == eval(ExpressionStatement(e.right))
           IN IF lt.tag # "Some" THEN lt
              ELSE IF rt.tag # "Some" THEN rt
              ELSE eval_infix_expression(e.operator, lt.v, rt.v)
      [] e.node = "If" -> eval_if_expression(e.condition, e.consequence, e.alternative)
      [] e.node \in {"Function", "Call", "Identifier", "None"} -> Panic

eval(n) ==
    CASE n.node = "Let" -> Panic
      [] n.node = "Return" ->
           LET val == eval(ExpressionStatement(n.value))
           IN IF val.tag = "Panic" THEN Panic ELSE Some(Object_ReturnValue(val))
      [] n.node = "Block" ->
           LET b == eval_block_statement(n.statements)
           IN IF b = Panic THEN Panic ELSE Some(b)
      [] n.node = "Expression" -> eval_expression(n.expression)

(***************************************************************************)
(* The inputs of the model.  A source text is spelled from words (the      *)
(* characters of one lexeme each) joined by single spaces.                 *)
(***************************************************************************)
MaxOperands == 4

MaxGroupOperands == 3

MaxDepth == 2

RECURSIVE Join(_)
Join(words) ==
    IF words = <<>> THEN <<>>
    ELSE IF Len(words) = 1 THEN words[1]
    ELSE words[1] \o <<" ">> \o Join(Tail(words))

w_if == <<"i", "f">>

w_else == <<"e", "l", "s", "e">>

w_return == <<"r", "e", "t", "u", "r", "n">>

w_let == <<"l", "e", "t">>

w_true == <<"t", "r", "u", "e">>

w_false == <<"f", "a", "l", "s", "e">>

w_fn == <<"f", "n">>

w_x == <<"x">>

w_y == <<"y">>

w_eq == <<"=", "=">>

w_ne == <<"!", "=">>

\* The i-th operand of a chain: 1, 12, 3, 14, ...
Operand(i) == IF i % 2 = 0 THEN <<"1", ToString(i)>> ELSE <<ToString(i)>>

InfixOperators == {<<"+">>, <<"-">>, <<"*">>, <<"/">>, <<"<">>, <<">">>, w_eq, w_ne}

\* One operator of each precedence level, for the chains with a group.
GroupOperators == {<<"+">>, <<"*">>, <<"<">>, w_eq}

RECURSIVE ChainsOf(_, _)
ChainsOf(n, operators) ==
    IF n = 1 THEN {<<Operand(1)>>}
    ELSE {c \o <<op, Operand(n)>> : c \in ChainsOf(n - 1, operators), op \in operators}

\* Operands joined by infix operators, without parentheses.
Chains == UNION {ChainsOf(n, InfixOperators) : n \in 1..MaxOperands}

\* chain c with operands i..j enclosed in one pair of parentheses
Group(c, i, j) ==
    SubSeq(c, 1, 2 * i - 2) \o <<<<"(">>>> \o SubSeq(c, 2 * i - 1, 2 * j - 1)
        \o <<<<")">>>> \o SubSeq(c, 2 * j, Len(c))

GroupedChains ==
    UNION {UNION {{Group(c, i, j) : c \in ChainsOf(n, GroupOperators), j \in i..n} :
                     i \in 1..n} : n \in 1..MaxGroupOperands}

Expressions ==
    {<<<<"5">>>>, <<w_x, <<"+">>, <<"2">>>>, <<w_true>>, <<<<"-">>, w_true>>,
     <<w_true, <<"+">>, <<"1">>>>, <<<<"1">>, <<"/">>, <<"2">>>>}

Terminators == {<<>>, <<<<";">>>>}

ReturnSources == {<<w_return>> \o e \o t : e \in Expressions, t \in Terminators}

LetSources ==
    {<<w_let, w_x, <<"=">>>> \o e \o t : e \in Expressions, t \in Terminators}
        \cup {<<w_let, <<"5">>, <<";">>>>, <<w_let, w_x, <<"5">>, <<";">>>>}

Conditions ==
    {<<w_true>>, <<w_false>>, <<<<"1">>>>, <<<<"1">>, <<"<">>, <<"2">>>>,
     <<<<"1">>, <<">">>, <<"2">>>>, <<<<"0">>>>}

IfSource(c, b) == <<w_if, <<"(">>>> \o c \o <<<<")">>, <<"{">>>> \o b \o <<<<"}">>>>

Bodies ==
    {<<<<"1", "0">>>>, <<w_return, <<"1", "0">>, <<";">>>>,
     <<<<"5">>, <<";">>>> \o IfSource(<<w_false>>, <<<<"1", "0">>>>)}

ElseParts == {<<>>, <<w_else, <<"{">>, <<"2", "0">>, <<"}">>>>}

IfSources ==
    {IfSource(c, b) \o e : c \in Conditions, b \in Bodies, e \in ElseParts}
        \cup {<<w_if, <<"(">>>> \o c \o <<<<")">>, <<"{">>>> \o b :
                 c \in {<<w_true>>}, b \in Bodies}

OtherSources ==
    {<<<<"!">>>> \o IfSource(<<w_false>>, <<<<"1", "0">>>>),
     <<<<"5">>, <<"+">>, <<"5">>, <<"-">>, <<"1", "0">>, <<")">>>>,
     <<<<"-">>>>,
     <<w_fn, <<"(">>, w_x, <<",">>, w_y, <<")">>, <<"{">>, w_x, <<"+">>, w_y, <<";">>,
       <<"}">>>>,
     <<w_x, <<"(">>, <<"1">>, <<",">>, <<"2">>, <<")">>>>,
     <<<<"(">>, <<"5">>, <<"+">>, <<"5">>>>,
     <<<<"1">>, <<"/">>, <<"0">>>>,
     <<w_let>>, <<w_let, w_x>>, <<w_let, <<"=">>, <<"5">>, <<";">>>>,
     <<<<"-">>, w_x, <<"+">>, w_y>>, <<w_x, <<"*">>, <<"-">>, w_y>>,
     <<<<"5">>, <<"+">>, <<"5">>, <<"+">>, <<"5">>, <<"+">>, <<"5">>, <<"-">>, <<"1", "0">>, <<")">>>>,
     <<<<")">>, <<"5">>>>, <<<<"=">>, <<"5">>, <<";">>, <<";">>, <<"2">>>>,
     <<<<"5">>, <<";">>, w_true, <<"+">>, <<"1">>>>, <<<<";">>>>,
     <<w_if, <<"(">>, w_true, <<")">>, <<"{">>, <<"5">>, <<";">>, w_true, <<"+">>, <<"1">>, <<"}">>>>,
     <<w_if, <<"(">>, w_true, <<")">>, <<"{">>, <<"}">>>>,
     <<w_if, <<"(">>, w_true, <<")">>, <<"{">>, w_true, <<"+">>, <<"1">>, <<"}">>>>,
     <<<<"-">>, <<"(">>, <<"5">>, <<"+">>, <<"5">>, <<")">>>>,
     <<<<"+">>, <<"5">>>>, <<<<"-">>, <<"2", "0">>>>, <<<<"+">>, <<"5">>, <<"*">>, <<"2">>>>,
     IfSource(<<w_true>>, <<w_return, <<"1", "0">>>>),
     IfSource(<<w_true>>, IfSource(<<w_true>>, <<<<"1">>>>) \o <<<<"2">>>>),
     <<<<"1">>, <<"+">>, <<"(">>, <<"2">>, <<"+">>, <<"3">>>>,
     <<<<"1">>, <<"*">>, <<"(">>, <<"2">>, <<"+">>, <<"3">>, <<";">>, <<"9">>>>,
     <<<<"5">>, <<"*">>, <<"5">>, <<"*">>, <<"2">>, <<"+">>, <<"1", "0">>, <<"*">>, <<"5">>,
       <<"-">>, <<"2">>>>}

\* `!` and `!!` applied to an integer or a boolean literal
BangSources ==
    {b \o <<x>> : b \in {<<<<"!">>>>, <<<<"!">>, <<"!">>>>},
                  x \in {<<"0">>, <<"5">>, w_true, w_false}}

\* Integer arithmetic: chains of up to MaxSignedOperands operands, each with
\* or without a prefix minus, joined by + - * /; the same with the first
\* operands in parentheses, before or after the last one; and the examples
\* of the tests.
MaxSignedOperands == 3

ArithmeticOperand(i) == <<<<"7">>, <<"2">>, <<"3">>, <<"5">>, <<"9">>>>[i]

ArithmeticWords == {<<"+">>, <<"-">>, <<"*">>, <<"/">>}

Signs == {<<>>, <<<<"-">>>>}

RECURSIVE SignedChainsOf(_)
SignedChainsOf(n) ==
    IF n = 1 THEN {sign \o <<ArithmeticOperand(1)>> : sign \in Signs}
    ELSE {c \o <<op>> \o sign \o <<ArithmeticOperand(n)>> :
             c \in SignedChainsOf(n - 1), op \in ArithmeticWords, sign \in Signs}

SignedGroups(n) ==
    {sign \o <<<<"(">>>> \o c \o <<<<")">>, op, ArithmeticOperand(n)>> :
        sign \in Signs, c \in SignedChainsOf(n - 1), op \in ArithmeticWords}
    \cup {<<ArithmeticOperand(n), op>> \o sign \o <<<<"(">>>> \o c \o <<<<")">>>> :
        sign \in Signs, c \in SignedChainsOf(n - 1), op \in ArithmeticWords}

ArithmeticSources ==
    UNION {SignedChainsOf(n) : n \in 1..MaxSignedOperands}
    \cup UNION {SignedGroups(n) : n \in 2..MaxSignedOperands}
    \cup {<<<<"5">>, <<"*">>, <<"2">>, <<"+">>, <<"1", "0">>>>,
          <<<<"2">>, <<"*">>, <<"(">>, <<"5">>, <<"+">>, <<"1", "0">>, <<")">>>>,
          <<<<"5", "0">>, <<"/">>, <<"2">>, <<"*">>, <<"2">>, <<"+">>, <<"1", "0">>>>,
          <<<<"-">>, <<"5", "0">>, <<"+">>, <<"1", "0", "0">>, <<"+">>, <<"-">>, <<"5", "0">>>>,
          <<<<"(">>, <<"5">>, <<"+">>, <<"1", "0">>, <<"*">>, <<"2">>, <<"+">>, <<"1", "5">>,
            <<"/">>, <<"3">>, <<")">>, <<"*">>, <<"2">>, <<"+">>, <<"-">>, <<"1", "0">>>>}

Statements ==
    {<<<<"9">>, <<";">>>>, <<w_return, <<"1", "0">>, <<";">>>>,
     <<w_let, w_x, <<"=">>, <<"5">>, <<";">>>>, <<w_let, <<"5">>, <<";">>>>,
     IfSource(<<w_true>>, <<<<"1", "0">>>>), <<<<"2">>, <<"*">>, <<"5">>, <<";">>>>}

StatementPairs == {s \o t : s \in Statements, t \in Statements}

\* statements whose parse fails with a diagnostic
FailedStatements ==
    {<<w_let, <<"5">>, <<";">>>>, <<w_let, w_x, <<"5">>, <<";">>>>,
     <<w_let, <<"=">>, <<"5">>, <<";">>>>, <<<<"(">>, <<"5">>, <<"+">>, <<"5">>, <<";">>>>}

\* well-formed statements, each with the kind of node it parses to
WellFormedStatements ==
    <<[words |-> <<<<"9">>, <<";">>>>, node |-> "Integer"],
      [words |-> <<<<"2">>, <<"*">>, <<"5">>, <<";">>>>, node |-> "Infix"],
      [words |-> <<w_return, <<"1", "0">>, <<";">>>>, node |-> "Return"],
      [words |-> <<w_let, w_x, <<"=">>, <<"5">>, <<";">>>>, node |-> "Let"],
      [words |-> IfSource(<<w_true>>, <<<<"1", "0">>>>), node |-> "If"]>>

\* a failed statement followed by two well-formed ones
RecoverySource(f, i, j) ==
    f \o WellFormedStatements[i].words \o WellFormedStatements[j].words

RecoverySources ==
    {RecoverySource(f, i, j) : f \in FailedStatements, i \in DOMAIN WellFormedStatements,
                               j \in DOMAIN WellFormedStatements}

Sources ==
    {Join(ws) : ws \in Chains \cup GroupedChains \cup ReturnSources \cup LetSources
                         \cup IfSources \cup OtherSources \cup StatementPairs
                         \cup BangSources \cup ArithmeticSources \cup RecoverySources}

(***************************************************************************)
(* The texts of the lexing client: every text of up to MaxLexLen           *)
(* characters, "." being a character no token starts with.                 *)
(***************************************************************************)
MaxLexLen == 3

MaxEofCalls == 3

LexChars == {"=", "!", "1", "a", " ", "-", ".", "U+0663"}

RECURSIVE TextsOfLength(_)
TextsOfLength(n) ==
    IF n = 0 THEN {<<>>}
    ELSE {t \o <<c>> : t \in TextsOfLength(n - 1), c \in LexChars}

LexSources == UNION {TextsOfLength(n) : n \in 0..MaxLexLen}

\* Texts that begin with a word: a keyword, a keyword or `x` with one more
\* character of a word, an underscore before a keyword or alone; at the end
\* of the text or followed by other tokens.
Keywords == {w_fn, w_let, w_true, w_false, w_if, w_else, w_return}

Words ==
    Keywords
    \cup {k \o c : k \in Keywords \cup {w_x}, c \in {<<"x">>, <<"_">>, <<"1">>, <<"U+0663">>}}
    \cup {<<"_">> \o k : k \in Keywords \cup {<<>>}}

WordSources ==
    {w \o t : w \in Words, t \in {<<>>, <<"=">>, <<" ", "x">>, <<"-", "1">>}}

(***************************************************************************)
(* Programs handed to eval_program as ASTs (eval_program is public and     *)
(* takes any Program, also one parse_program cannot build, such as a       *)
(* Return with a value expression or an If with an alternative).           *)
(***************************************************************************)
int_literal(n) == IntegerExpression(Token("Int", <<ToString(n)>>), n)

bool_literal(b) ==
    BooleanExpression(IF b THEN Token("True", w_true) ELSE Token("False", w_false), b)

prefix(operator, right) ==
    PrefixExpression(Token(IF operator = "-" THEN "Minus" ELSE "Bang", <<operator>>),
                     operator, Some(right))

plus(left, right) == InfixExpression(Token("Plus", <<"+">>), "+", right, left)

return_of(e) == ReturnStatement(Token("Return", w_return), e)

block_of(statements) == BlockStatement(Token("LBrace", <<"{">>), statements)

if_of(condition, statements, alternative) ==
    IfExpression(Token("If", w_if), condition, block_of(statements), alternative)

let_x == LetStatement(Token("Ident", w_x), Identifier(Token("Ident", w_x)))

LeafStatements ==
    {ExpressionStatement(int_literal(5)),
     return_of(int_literal(1)),
     return_of(prefix("-", bool_literal(TRUE))),
     ExpressionStatement(plus(bool_literal(TRUE), int_literal(1))),
     ExpressionStatement(prefix("!", if_of(bool_literal(FALSE), <<ExpressionStatement(int_literal(1))>>, None))),
     ExpressionStatement(plus(if_of(bool_literal(TRUE), <<return_of(int_literal(2))>>, None),
                              int_literal(1)))}

AstConditions == {bool_literal(TRUE), bool_literal(FALSE)}

\* what follows the nested statement in its block
BlockTails == {<<>>, <<return_of(int_literal(9)), let_x>>}

Alternatives == {None, Some(block_of(<<return_of(int_literal(3))>>))}

\* a statement with d levels of if-expressions around a leaf statement
RECURSIVE NestedStatements(_)
NestedStatements(d) ==
    IF d = 0 THEN LeafStatements
    ELSE {ExpressionStatement(if_of(c, <<s>> \o t, a)) :
             c \in AstConditions, s \in NestedStatements(d - 1), t \in BlockTails,
             a \in Alternatives}

ProgramHeads == {<<>>, <<ExpressionStatement(int_literal(7))>>}

ProgramTails == {<<>>, <<return_of(int_literal(8))>>, <<let_x>>}

AstPrograms ==
    {h \o <<s>> \o t : h \in ProgramHeads,
                       s \in UNION {NestedStatements(d) : d \in 0..MaxDepth},
                       t \in ProgramTails}

infix(operator, left, right) ==
    InfixExpression(Token(CASE operator = "+" -> "Plus" [] operator = "-" -> "Minus"
                            [] operator = "*" -> "Asterisk" [] operator = "/" -> "Slash"
                            [] operator = "<" -> "Lt" [] operator = ">" -> "Gt"
                            [] operator = "==" -> "Eq" [] operator = "!=" -> "NotEq",
                          <<operator>>),
                    operator, right, left)

\* An expression the parser can build whose value is the integer n: literals
\* have no sign, and i64::MIN is one less than the negation of i64::MAX.
integer_expression(n) ==
    IF n >= 0 THEN int_literal(n)
    ELSE IF n = i64_MIN THEN infix("-", prefix("-", int_literal(i64_MAX)), int_literal(1))
    ELSE prefix("-", int_literal(-n))

EdgeIntegers == {i64_MIN, -1, 0, 1, 2, i64_MAX}

ArithmeticOperators == {"+", "-", "*", "/"}

\* one arithmetic operation on Integer operands as the whole program
ArithmeticPrograms ==
    {<<ExpressionStatement(infix(o, integer_expression(l), integer_expression(r)))>> :
        o \in ArithmeticOperators, l \in EdgeIntegers, r \in EdgeIntegers}
    \cup {<<ExpressionStatement(prefix("-", integer_expression(n)))>> : n \in EdgeIntegers}

\* Operands by the kind of their value: an Integer, the Booleans, Null (an if
\* with an empty block), a ReturnValue (an if whose block returns), no result
\* (`-true`), and an identifier, whose evaluation aborts.
OperandKinds ==
    <<int_literal(5), int_literal(0), bool_literal(TRUE), bool_literal(FALSE),
      if_of(bool_literal(TRUE), <<>>, None),
      if_of(bool_literal(TRUE), <<return_of(int_literal(1))>>, None),
      prefix("-", bool_literal(TRUE)),
      Identifier(Token("Ident", w_x))>>

AllInfixOperators == {"+", "-", "*", "/", "<", ">", "==", "!="}

(***************************************************************************)
(* The state machine: a client builds a Parser over `input`, calls         *)
(* parse_program, then eval_program on the Program and formats the         *)
(* returned Object (as src/src/eval/tests.rs does), or hands an AST to     *)
(* eval_program directly.  One action is one call or one iteration of a    *)
(* top-level loop.                                                         *)
(***************************************************************************)
InitSource ==
    /\ input \in Sources
    /\ parser = [position |-> 0, curr_token |-> DefaultToken,
                 peek_token |-> DefaultToken, errors |-> <<>>, hang |-> FALSE]
    /\ program = <<>>
    /\ pc = "new"

InitAst ==
    /\ input = <<>>
    /\ parser = Parser_new
    /\ \/ program \in AstPrograms
       \/ program \in ArithmeticPrograms
       \/ \E o \in AllInfixOperators, l \in DOMAIN OperandKinds, r \in DOMAIN OperandKinds :
             program = <<ExpressionStatement(infix(o, OperandKinds[l], OperandKinds[r]))>>
       \/ \E o \in {"-", "!"}, r \in DOMAIN OperandKinds :
             program = <<ExpressionStatement(prefix(o, OperandKinds[r]))>>
       \/ \E r \in DOMAIN OperandKinds :
             program = <<ExpressionStatement(prefix("!", prefix("!", OperandKinds[r])))>>
       \/ \E c \in DOMAIN OperandKinds :
             program = <<ExpressionStatement(
                           if_of(OperandKinds[c], <<ExpressionStatement(int_literal(10))>>,
                                 Some(block_of(<<ExpressionStatement(int_literal(20))>>))))>>
    /\ pc = "parsed"

\* a client that only lexes: Lexer::new(input), then next_token repeatedly
InitLex ==
    /\ input \in LexSources \cup WordSources
    /\ parser = [position |-> 0, curr_token |-> DefaultToken,
                 peek_token |-> DefaultToken, errors |-> <<>>, hang |-> FALSE]
    /\ program = <<>>
    /\ pc = "lex"

Init ==
    /\ InitSource \/ InitAst \/ InitLex
    /\ lexer = 0
    /\ lexed = <<>>
    /\ overflow_checks \in BOOLEAN
    /\ idx = 0
    /\ result = None
    /\ value = None
    /\ output = ""

\* one call of Lexer::next_token by the lexing client, which keeps the token;
\* it goes on calling after the end of the input
LexerNextToken ==
    /\ pc = "lex"
    /\ Cardinality({i \in DOMAIN lexed : lexed[i].token_type = "Eof"}) < MaxEofCalls
    /\ lexer' = Lexer_next_token(input, lexer).position
    /\ lexed' = Append(lexed, Lexer_next_token(input, lexer).tok)
    /\ UNCHANGED <<overflow_checks, input, parser, program, pc, idx, result, value, output>>

\* Parser::new: the two priming next_token calls
New ==
    /\ pc = "new"
    /\ parser' = Parser_new
    /\ pc' = "parse_program"
    /\ UNCHANGED <<lexer, lexed, overflow_checks, input, program, idx, result, value, output>>

\* the while loop of parse_program ending at the first statement that fails
ParseProgramStep_fails_fast ==
    /\ pc = "parse_program"
    /\ ~curr_token_is(parser, "Eof")
    /\ LET stmt == self("parse_statement", parser, <<>>)
       IN IF stmt.p.hang
          THEN /\ parser' = stmt.p
               /\ pc' = "hang"
               /\ UNCHANGED program
          ELSE /\ parser' = self("next_token", stmt.p, <<>>)
               /\ program' = IF stmt.r.tag = "Some" THEN Append(program, stmt.r.v)
                             ELSE program
               /\ pc' = IF stmt.r.tag = "Some" THEN pc ELSE "parsed"
    /\ UNCHANGED <<lexer, lexed, overflow_checks, input, idx, result, value, output>>

\* one iteration of the while loop of parse_program
ParseProgramStep ==
    /\ pc = "parse_program"
    /\ ~curr_token_is(parser, "Eof")
    /\ LET stmt == self("parse_statement", parser, <<>>)
       IN IF stmt.p.hang
          THEN /\ parser' = stmt.p
               /\ pc' = "hang"
               /\ UNCHANGED program
          ELSE /\ parser' = self("next_token", stmt.p, <<>>)
               /\ program' = IF stmt.r.tag = "Some" THEN Append(program, stmt.r.v)
                             ELSE program
               /\ UNCHANGED pc
    /\ UNCHANGED <<lexer, lexed, overflow_checks, input, idx, result, value, output>>

\* parse_program leaves its loop and returns Some(program)
ParseProgramReturn ==
    /\ pc = "parse_program"
    /\ curr_token_is(parser, "Eof")
    /\ pc' = "parsed"
    /\ UNCHANGED <<lexer, lexed, overflow_checks, input, parser, program, idx, result, value, output>>

\* one more iteration of a skip-to-semicolon loop that cannot exit: the call
\* of next_token leaves the parser as it was
Hang ==
    /\ pc = "hang"
    /\ ~curr_token_is(parser, "Semicolon")
    /\ parser' = self("next_token", parser, <<>>)
    /\ UNCHANGED <<lexer, lexed, overflow_checks, input, program, pc, idx, result, value, output>>

\* eval_program is called: `let mut result = Some(Object::Null)`
EvalProgramCall ==
    /\ pc = "parsed"
    /\ idx' = 1
    /\ result' = Some(Object_Null)
    /\ pc' = "eval_program"
    /\ UNCHANGED <<lexer, lexed, overflow_checks, input, parser, program, value, output>>

\* the for loop of eval_program unwrapping the ReturnValue it returns
EvalProgramStep_unwraps ==
    /\ pc = "eval_program"
    /\ idx <= Len(program)
    /\ LET return_value == eval(program[idx])
       IN CASE return_value.tag = "Panic" ->
                 /\ pc' = "eval_panic"
                 /\ UNCHANGED <<idx, result, value>>
            [] return_value.tag = "Some" /\ return_value.v.kind = "ReturnValue" ->
                 /\ value' = IF return_value.v.value.tag = "Some"
                              THEN return_value.v.value.v ELSE Object_Null
                 /\ pc' = "evaluated"
                 /\ UNCHANGED <<idx, result>>
            [] OTHER ->
                 /\ result' = return_value
                 /\ idx' = idx + 1
                 /\ UNCHANGED <<pc, value>>
    /\ UNCHANGED <<lexer, lexed, overflow_checks, input, parser, program, output>>

\* one iteration of the for loop of eval_program
EvalProgramStep ==
    /\ pc = "eval_program"
    /\ idx <= Len(program)
    /\ LET return_value == eval(program[idx])
       IN CASE return_value.tag = "Panic" ->
                 /\ pc' = "eval_panic"
                 /\ UNCHANGED <<idx, result, value>>
            [] return_value.tag = "Some" /\ return_value.v.kind = "ReturnValue" ->
                 /\ value' = return_value.v
                 /\ pc' = "evaluated"
                 /\ UNCHANGED <<idx, result>>
            [] OTHER ->
                 /\ result' = return_value
                 /\ idx' = idx + 1
                 /\ UNCHANGED <<pc, value>>
    /\ UNCHANGED <<lexer, lexed, overflow_checks, input, parser, program, output>>

\* the loop is over: `result.unwrap_or(Object::Null)`
EvalProgramReturn ==
    /\ pc = "eval_program"
    /\ idx > Len(program)
    /\ value' = IF result.tag = "Some" THEN result.v ELSE Object_Null
    /\ pc' = "evaluated"
    /\ UNCHANGED <<lexer, lexed, overflow_checks, input, parser, program, idx, result, output>>

\* format!("{}", actual)
Format ==
    /\ pc = "evaluated"
    /\ LET text == Object_fmt(value)
       IN IF text.tag = "Panic"
          THEN pc' = "fmt_panic" /\ UNCHANGED output
          ELSE pc' = "done" /\ output' = text.v
    /\ UNCHANGED <<lexer, lexed, overflow_checks, input, parser, program, idx, result, value>>

Next ==
    \/ LexerNextToken
    \/ New
    \/ ParseProgramStep
    \/ ParseProgramReturn
    \/ Hang
    \/ EvalProgramCall
    \/ EvalProgramStep
    \/ EvalProgramReturn
    \/ Format

Spec == Init /\ [][Next]_vars

(***************************************************************************)
(* Properties.  What a claim says about source text is stated over the     *)
(* token stream of `input` (Lexer::next_token called until Eof), not over  *)
(* the way the text was spelled.                                           *)
(***************************************************************************)
RECURSIVE Tokens(_, _)
Tokens(src, position) ==
    LET l == Lexer_next_token(src, position)
    IN IF l.tok.token_type = "Eof" THEN <<>> ELSE <<l.tok>> \o Tokens(src, l.position)

InfixTokenTypes == {"Eq", "NotEq", "Minus", "Plus", "Asterisk", "Slash", "Gt", "Lt"}

\* C1 (stated as the claim states it): parse_program terminates for every
\* input, also when a `let` or `return` statement is not followed by a `;`
\* before the end of the input and when a block is unterminated.  A loop of
\* the parser whose iteration leaves the parser as it was while its exit
\* condition is false never exits, so termination requires that parse_program
\* is never inside such a loop.
C1_ParseProgramTerminates ==
    ~(/\ pc = "hang"
      /\ ~curr_token_is(parser, "Semicolon")
      /\ self("next_token", parser, <<>>) = parser)

\* Operands (integer literals) joined by infix operators, without parentheses.
IsIntegerChain(tokens) ==
    /\ Len(tokens) % 2 = 1
    /\ \A i \in 1..Len(tokens) :
          IF i % 2 = 1 THEN tokens[i].token_type = "Int"
          ELSE tokens[i].token_type \in InfixTokenTypes

\* The order of the operators: Product > Sum > LessGreater > Equals.
Binds(token_type) ==
    CASE token_type \in {"Asterisk", "Slash"} -> 4
      [] token_type \in {"Plus", "Minus"} -> 3
      [] token_type \in {"Lt", "Gt"} -> 2
      [] token_type \in {"Eq", "NotEq"} -> 1

\* how many parentheses are open at token i
Depth(tokens, i) ==
    Cardinality({k \in 1..(i - 1) : tokens[k].token_type = "LParen"})
        - Cardinality({k \in 1..(i - 1) : tokens[k].token_type = "RParen"})

\* the infix operators outside every parenthesis
TopOperators(tokens) ==
    {i \in 1..Len(tokens) : /\ tokens[i].token_type \in InfixTokenTypes
                            /\ Depth(tokens, i) = 0}

\* The operator applied last: the rightmost of the loosest operators outside
\* the parentheses.
LastApplied(tokens) ==
    CHOOSE i \in TopOperators(tokens) :
        \A j \in TopOperators(tokens) :
            \/ Binds(tokens[i].token_type) < Binds(tokens[j].token_type)
            \/ Binds(tokens[i].token_type) = Binds(tokens[j].token_type) /\ j <= i

\* An integer expression: a literal, two integer expressions joined by an
\* infix operator, or an integer expression in parentheses.
RECURSIVE IsIntegerExpression(_)
IsIntegerExpression(tokens) ==
    IF Len(tokens) = 0 THEN FALSE
    ELSE IF Len(tokens) = 1 THEN tokens[1].token_type = "Int"
    ELSE IF TopOperators(tokens) # {}
    THEN /\ IsIntegerExpression(SubSeq(tokens, 1, LastApplied(tokens) - 1))
         /\ IsIntegerExpression(SubSeq(tokens, LastApplied(tokens) + 1, Len(tokens)))
    ELSE /\ tokens[1].token_type = "LParen"
         /\ tokens[Len(tokens)].token_type = "RParen"
         /\ IsIntegerExpression(SubSeq(tokens, 2, Len(tokens) - 1))

\* The fully parenthesised form of an integer expression: every operator with
\* its two operands in one pair of parentheses, a tighter operator inside a
\* looser one, equal ones from the left, a parenthesised part as one operand.
RECURSIVE FullyParenthesised(_)
FullyParenthesised(tokens) ==
    IF Len(tokens) = 1 THEN Str(tokens[1].literal)
    ELSE IF TopOperators(tokens) = {}
    THEN FullyParenthesised(SubSeq(tokens, 2, Len(tokens) - 1))
    ELSE LET i == LastApplied(tokens)
         IN "(" \o FullyParenthesised(SubSeq(tokens, 1, i - 1)) \o " "
                \o Str(tokens[i].literal) \o " "
                \o FullyParenthesised(SubSeq(tokens, i + 1, Len(tokens))) \o ")"

\* the program is one expression statement that prints as `text`
ParsedAs(text) ==
    /\ Len(program) = 1
    /\ program[1].node = "Expression"
    /\ Expression_token_literal(program[1].expression) = text

\* C6: a parenthesis-free chain of integer operands joined by infix operators
\* parses to the expression whose printed form is the fully parenthesised
\* chain: higher precedence tighter, equal precedence left-associative.
C6_PrecedenceAndLeftAssociativity ==
    (pc = "parsed" /\ IsIntegerChain(Tokens(input, 0)))
        => ParsedAs(FullyParenthesised(Tokens(input, 0)))

\* C6 witness: `5 * 5 * 2 + 10 * 5 - 2` has been parsed to
\* `((((5 * 5) * 2) + (10 * 5)) - 2)`.
C6_Witness ==
    /\ pc = "parsed"
    /\ input = Join(<<<<"5">>, <<"*">>, <<"5">>, <<"*">>, <<"2">>, <<"+">>, <<"1", "0">>,
                      <<"*">>, <<"5">>, <<"-">>, <<"2">>>>)
    /\ ParsedAs("((((5 * 5) * 2) + (10 * 5)) - 2)")

\* C7: in an integer expression with parentheses, a parenthesised part is
\* parsed on its own and is one operand of the operators around it, whatever
\* their precedence.
C7_GroupIsOneOperand ==
    (/\ pc = "parsed"
     /\ \E i \in 1..Len(Tokens(input, 0)) : Tokens(input, 0)[i].token_type = "LParen"
     /\ IsIntegerExpression(Tokens(input, 0)))
        => ParsedAs(FullyParenthesised(Tokens(input, 0)))

\* C7 witness: `(1 + 12) * 3` has been parsed to `((1 + 12) * 3)`, the sum
\* being the left operand of the product.
C7_Witness ==
    /\ pc = "parsed"
    /\ input = Join(<<<<"(">>, <<"1">>, <<"+">>, <<"1", "2">>, <<")">>, <<"*">>, <<"3">>>>)
    /\ ParsedAs("((1 + 12) * 3)")

\* the types of tokens i..j of the token stream
Types(tokens, i, j) == [k \in 1..(j - i + 1) |-> tokens[k + i - 1].token_type]

\* `if ( C ) { A } else { B }`: one `else`, between the `}` of A and the `{`
\* of B, in a text that starts with `if (` and ends with `}`
IsIfElse(tokens) ==
    /\ Len(tokens) >= 10
    /\ Types(tokens, 1, 2) = <<"If", "LParen">>
    /\ tokens[Len(tokens)].token_type = "RBrace"
    /\ \E k \in 2..(Len(tokens) - 1) :
          /\ Types(tokens, k - 1, k + 1) = <<"RBrace", "Else", "LBrace">>
          /\ \A j \in 1..Len(tokens) : tokens[j].token_type = "Else" => j = k

\* C4 (stated as the claim states it): `if (C) { A } else { B }` parses to
\* one If expression whose alternative is the block B, and evaluates to the
\* value of A when C is truthy (`if (1 < 2) { 10 } else { 20 }` gives 10) and
\* of B when C is falsy (`if (1 > 2) { 10 } else { 20 }` gives 20).
C4_IfElseHasAlternative ==
    /\ (pc = "parsed" /\ IsIfElse(Tokens(input, 0)))
          => /\ Len(program) = 1
             /\ program[1].node = "Expression"
             /\ program[1].expression.node = "If"
             /\ program[1].expression.alternative.tag = "Some"
    /\ (pc = "done" /\ input = Join(IfSource(<<<<"1">>, <<"<">>, <<"2">>>>, <<<<"1", "0">>>>)
                                      \o <<w_else, <<"{">>, <<"2", "0">>, <<"}">>>>))
          => output = "10"
    /\ (pc = "done" /\ input = Join(IfSource(<<<<"1">>, <<">">>, <<"2">>>>, <<<<"1", "0">>>>)
                                      \o <<w_else, <<"{">>, <<"2", "0">>, <<"}">>>>))
          => output = "20"

\* Operands (integer literals, identifiers, booleans) joined by infix operators.
IsOperandChain(tokens) ==
    /\ Len(tokens) % 2 = 1
    /\ \A i \in 1..Len(tokens) :
          IF i % 2 = 1 THEN tokens[i].token_type \in {"Int", "Ident", "True", "False"}
          ELSE tokens[i].token_type \in InfixTokenTypes

\* `return EXPR ;` with EXPR a chain of operands
IsReturnStatement(tokens) ==
    /\ Len(tokens) >= 3
    /\ tokens[1].token_type = "Return"
    /\ tokens[Len(tokens)].token_type = "Semicolon"
    /\ IsOperandChain(SubSeq(tokens, 2, Len(tokens) - 1))

\* C8 (stated as the claim states it): `return EXPR ;` parses to a Return
\* statement that prints as `return <fully parenthesised EXPR>;`.
C8_ReturnPrintsItsValue ==
    (pc = "parsed" /\ IsReturnStatement(Tokens(input, 0)))
        => /\ Len(program) = 1
           /\ program[1].node = "Return"
           /\ Statement_fmt(program[1])
                = "return "
                    \o FullyParenthesised(SubSeq(Tokens(input, 0), 2,
                                                 Len(Tokens(input, 0)) - 1))
                    \o ";"

\* `let IDENT = EXPR ;` with EXPR a chain of operands
IsLetStatement(tokens) ==
    /\ Len(tokens) >= 5
    /\ Types(tokens, 1, 3) = <<"Let", "Ident", "Assign">>
    /\ tokens[Len(tokens)].token_type = "Semicolon"
    /\ IsOperandChain(SubSeq(tokens, 4, Len(tokens) - 1))

\* C9 (stated as the claim states it): `let IDENT = EXPR ;` parses to a Let
\* statement whose token is the `let` keyword and whose name is IDENT, and
\* that prints as `let IDENT = <EXPR>;`.
C9_LetPrintsItsParts ==
    (pc = "parsed" /\ IsLetStatement(Tokens(input, 0)))
        => /\ Len(program) = 1
           /\ program[1].node = "Let"
           /\ program[1].token.token_type = "Let"
           /\ program[1].name.token = Tokens(input, 0)[2]
           /\ Statement_fmt(program[1])
                = "let " \o Str(Tokens(input, 0)[2].literal) \o " = "
                    \o FullyParenthesised(SubSeq(Tokens(input, 0), 4,
                                                 Len(Tokens(input, 0)) - 1))
                    \o ";"

\* the two objects are the same object
RECURSIVE SameObject(_, _)
SameObject(a, b) ==
    /\ a.kind = b.kind
    /\ CASE a.kind = "Null" -> TRUE
         [] a.kind \in {"Int", "Bool"} -> a.value = b.value
         [] a.kind = "ReturnValue" ->
              /\ a.value.tag = b.value.tag
              /\ a.value.tag = "Some" => SameObject(a.value.v, b.value.v)

\* `evaluated`, a result of eval, is Some(object)
IsSome(evaluated, object) ==
    /\ evaluated.tag = "Some"
    /\ SameObject(evaluated.v, object)

\* The first return statement executed when `statements` run in order, an
\* if-expression in statement position running the statements of the block
\* its condition selects (kind "Return"); "Panic" when a statement panics
\* before any return, "End" when the statements end without a return.
RECURSIVE FirstReturn(_)
FirstReturn(statements) ==
    IF statements = <<>> THEN [kind |-> "End"]
    ELSE LET s == Head(statements)
         IN CASE s.node = "Return" -> [kind |-> "Return", statement |-> s]
              [] s.node = "Expression" /\ s.expression.node = "If" ->
                   LET c == eval(ExpressionStatement(s.expression.condition))
                       taken == IF c.tag # "Some" THEN <<>>
                                ELSE IF is_truthy(c.v)
                                THEN s.expression.consequence.statements
                                ELSE IF s.expression.alternative.tag = "Some"
                                THEN s.expression.alternative.v.statements
                                ELSE <<>>
                   IN IF c.tag = "Panic" THEN [kind |-> "Panic"]
                      ELSE IF FirstReturn(taken).kind = "End"
                      THEN FirstReturn(Tail(statements))
                      ELSE FirstReturn(taken)
              [] OTHER -> IF eval(s) = Panic THEN [kind |-> "Panic"]
                          ELSE FirstReturn(Tail(statements))

\* C2: once a statement of a block or of the program evaluates to a
\* ReturnValue, evaluation ends with that ReturnValue unchanged: through the
\* nested if/else blocks the value of the program is that of the first
\* return executed, and no statement after it is evaluated (one that would
\* panic does not).  The returns are those in statement position; a return
\* in a block that is the operand of an operator is no statement of an
\* enclosing block.
C2_FirstReturnEndsEvaluation ==
    (pc \in {"evaluated", "eval_panic"} /\ FirstReturn(program).kind = "Return")
        => IF eval(FirstReturn(program).statement) = Panic THEN pc = "eval_panic"
           ELSE pc = "evaluated" /\ IsSome(eval(FirstReturn(program).statement), value)

\* C2 witness: a return two if-blocks deep has ended the evaluation of a
\* program in which statements follow it in its block and in the program.
C2_Witness ==
    /\ pc = "evaluated"
    /\ FirstReturn(program).kind = "Return"
    /\ IsSome(eval(FirstReturn(program).statement), value)
    /\ idx < Len(program)
    /\ program[idx].node = "Expression"
    /\ program[idx].expression.node = "If"
    /\ LET outer == program[idx].expression.consequence.statements
       IN /\ Len(outer) > 1
          /\ outer[1].node = "Expression"
          /\ outer[1].expression.node = "If"
          /\ LET inner == outer[1].expression.consequence.statements
             IN /\ Len(inner) > 1
                /\ inner[1].node = "Return"

\* C3 (as the claim states it): the Object eval_program returns is never a
\* ReturnValue.
C3_NeverReturnsReturnValue == pc = "evaluated" => value.kind # "ReturnValue"

\* C3 (amended): the Object eval_program returns is a ReturnValue exactly when
\* its loop stopped at a statement that evaluated to one, and it is then that
\* ReturnValue as eval gave it, still wrapped.
C3_ReturnValueReturnedWrapped ==
    pc = "evaluated"
        => IF idx <= Len(program)
           THEN value.kind = "ReturnValue" /\ IsSome(eval(program[idx]), value)
           ELSE value.kind # "ReturnValue"

\* C3 witness: eval_program has returned ReturnValue(Some(Int(1))) for a
\* program whose first statement is `return 1`.
C3_Witness ==
    /\ pc = "evaluated"
    /\ program[1].node = "Return"
    /\ program[1].value.node = "Integer"
    /\ SameObject(value, Object_ReturnValue(Some(Object_Int(1))))

\* an if-expression without alternative whose condition evaluates to a falsy
\* object
IsFalsyIf(e) ==
    /\ e.node = "If"
    /\ e.alternative.tag = "None"
    /\ eval(ExpressionStatement(e.condition)).tag = "Some"
    /\ ~is_truthy(eval(ExpressionStatement(e.condition)).v)

\* an if-expression with a truthy condition whose block ends in a falsy if
EndsInFalsyIf(e) ==
    /\ e.node = "If"
    /\ eval(ExpressionStatement(e.condition)).tag = "Some"
    /\ is_truthy(eval(ExpressionStatement(e.condition)).v)
    /\ e.consequence.statements # <<>>
    /\ LET last == e.consequence.statements[Len(e.consequence.statements)]
       IN last.node = "Expression" /\ IsFalsyIf(last.expression)

\* C5 (stated as the claim states it): an if-expression with a falsy condition
\* and no alternative evaluates to the Null object, a present result: as the
\* statement of the program (the program is Null), as the last statement of
\* a block (the program `if (true) { 5; if (false)
\* { 10 } }` is Null) and as an operand (the program `!if (false) { 10 }` is
\* true).
C5_FalsyIfIsNull ==
    /\ (/\ pc = "evaluated"
        /\ Len(program) = 1
        /\ program[1].node = "Expression"
        /\ IsFalsyIf(program[1].expression))
          => SameObject(value, Object_Null)
    /\ (/\ pc = "evaluated"
        /\ Len(program) = 1
        /\ program[1].node = "Expression"
        /\ EndsInFalsyIf(program[1].expression))
          => SameObject(value, Object_Null)
    /\ (/\ pc = "evaluated"
        /\ Len(program) = 1
        /\ program[1].node = "Expression"
        /\ program[1].expression.node = "Prefix"
        /\ program[1].expression.operator = "!"
        /\ program[1].expression.right.tag = "Some"
        /\ IsFalsyIf(program[1].expression.right.v))
          => SameObject(value, Object_Bool(TRUE))

\* an operator applied to an operand of the wrong kind: `-true`, `true + 1`
IsMismatch(e) ==
    \/ /\ e.node = "Prefix"
       /\ e.operator = "-"
       /\ e.right.tag = "Some"
       /\ e.right.v.node = "Boolean"
    \/ /\ e.node = "Infix"
       /\ e.operator = "+"
       /\ e.left.node = "Boolean"
       /\ e.right.node = "Integer"

\* C10 (stated as the claim states it): when the program is a mismatching
\* expression, or the return of one, evaluating the expression gives an absent
\* result and neither evaluation nor the rendering of the final value aborts.
C10_MismatchIsAbsentNeverAbort ==
    (/\ Len(program) = 1
     /\ \/ program[1].node = "Expression" /\ IsMismatch(program[1].expression)
        \/ program[1].node = "Return" /\ IsMismatch(program[1].value))
        => /\ pc \notin {"eval_panic", "fmt_panic"}
           /\ program[1].node = "Expression" => eval(program[1]).tag = "None"
           /\ program[1].node = "Return"
                 => eval(ExpressionStatement(program[1].value)).tag = "None"

\* C11 (stated as the claim states it): eval_program does not abort on a
\* Program that parse_program returned for a source text with no diagnostics
\* recorded: whenever evaluating a parsed text aborts, the parser has
\* rejected the text with at least one diagnostic.
C11_NoDiagnosticsNoAbort ==
    (input # <<>> /\ pc = "eval_panic") => parser.errors # <<>>

\* the value of an expression is an Integer object
IsInteger(e) ==
    LET evaluated == eval(ExpressionStatement(e))
    IN evaluated.tag = "Some" /\ evaluated.v.kind = "Int"

\* an arithmetic operation whose operands evaluate to Integer objects
IsIntegerArithmetic(e) ==
    \/ /\ e.node = "Infix"
       /\ e.operator \in ArithmeticOperators
       /\ IsInteger(e.left)
       /\ IsInteger(e.right)
    \/ /\ e.node = "Prefix"
       /\ e.operator = "-"
       /\ e.right.tag = "Some"
       /\ IsInteger(e.right.v)

\* C12 (stated as the claim states it): when the program is one arithmetic
\* operation (+ - * / or prefix minus) on Integer operands, eval_program does
\* not abort and the value it returns is an Integer, whatever the operands.
C12_IntegerArithmeticIsTotal ==
    (/\ Len(program) = 1
     /\ program[1].node = "Expression"
     /\ IsIntegerArithmetic(program[1].expression))
        => /\ pc # "eval_panic"
           /\ pc = "evaluated" => value.kind = "Int"

\* the value of an expression is a Boolean, Null or a ReturnValue
IsNotInteger(e) ==
    LET evaluated == eval(ExpressionStatement(e))
    IN evaluated.tag = "Some" /\ evaluated.v.kind \in {"Bool", "Null", "ReturnValue"}

\* an expression has no result
IsAbsent(e) == eval(ExpressionStatement(e)).tag = "None"

\* evaluating an expression ends, with a value or with no result
Evaluates(e) == eval(ExpressionStatement(e)).tag # "Panic"

\* prefix `-` or an infix operator applied to an operand that is no Integer
\* (the other operand being one whose evaluation ends), or an infix operator
\* whose left operand has no result
IsOperandMismatch(e) ==
    \/ /\ e.node = "Prefix"
       /\ e.operator = "-"
       /\ e.right.tag = "Some"
       /\ IsNotInteger(e.right.v)
    \/ /\ e.node = "Infix"
       /\ e.operator \in AllInfixOperators
       /\ \/ IsNotInteger(e.left) /\ Evaluates(e.right)
          \/ IsAbsent(e.left)
          \/ IsInteger(e.left) /\ IsNotInteger(e.right)

\* C13: when the program is prefix `-` applied to a Boolean, Null or
\* ReturnValue, or an infix operator with such a value as one of its operands
\* or with a left operand that has no result, eval_program does not abort
\* (the right operand of an absent left one is not evaluated, even if
\* evaluating it would abort) and the statement yields no result.
C13_OperatorsAreDefinedForIntegersOnly ==
    (/\ Len(program) = 1
     /\ program[1].node = "Expression"
     /\ IsOperandMismatch(program[1].expression))
        => /\ pc # "eval_panic"
           /\ (pc = "eval_program" /\ idx = 2) => result.tag = "None"
           /\ pc = "evaluated" => value.kind = "Null"

\* `true == true` has been evaluated and has no result, and so has an infix
\* expression with an absent left operand and an identifier as right operand
C13_Witness ==
    /\ pc = "eval_program"
    /\ idx = 2
    /\ Len(program) = 1
    /\ program[1].node = "Expression"
    /\ program[1].expression.node = "Infix"
    /\ result.tag = "None"
    /\ \/ /\ program[1].expression.operator = "=="
          /\ program[1].expression.left.node = "Boolean"
          /\ program[1].expression.right.node = "Boolean"
       \/ /\ IsAbsent(program[1].expression.left)
          /\ program[1].expression.right.node = "Identifier"

\* `!` applied to an operand
IsBang(e) == e.node = "Prefix" /\ e.operator = "!" /\ e.right.tag = "Some"

\* the value of an expression is an object of the kind
IsOfKind(e, kind) ==
    LET evaluated == eval(ExpressionStatement(e))
    IN evaluated.tag = "Some" /\ evaluated.v.kind = kind

\* the value of an expression is Boolean(b)
IsBoolean(e, b) ==
    LET evaluated == eval(ExpressionStatement(e))
    IN evaluated.tag = "Some" /\ evaluated.v.kind = "Bool" /\ evaluated.v.value = b

\* C14: when the program is `!` applied to an operand and has been evaluated,
\* its result is Boolean(~b) for an operand that is Boolean(b), Boolean(false)
\* for an Integer (0 too) and Boolean(true) for Null; and when the operand is
\* itself `!` applied to an Integer the result is Boolean(true), applied to
\* Boolean(b) it is Boolean(b).
C14_BangNegatesTruthiness ==
    (/\ pc = "eval_program"
     /\ idx = 2
     /\ Len(program) = 1
     /\ program[1].node = "Expression"
     /\ IsBang(program[1].expression))
        => LET operand == program[1].expression.right.v
           IN /\ \A b \in BOOLEAN : IsBoolean(operand, b) => IsSome(result, Object_Bool(~b))
              /\ IsOfKind(operand, "Int") => IsSome(result, Object_Bool(FALSE))
              /\ IsOfKind(operand, "Null") => IsSome(result, Object_Bool(TRUE))
              /\ IsBang(operand) =>
                    /\ IsOfKind(operand.right.v, "Int") => IsSome(result, Object_Bool(TRUE))
                    /\ \A b \in BOOLEAN :
                          IsBoolean(operand.right.v, b) => IsSome(result, Object_Bool(b))

\* the text `! ! 0` has been parsed and evaluated
C14_Witness ==
    /\ pc = "eval_program"
    /\ idx = 2
    /\ input = <<"!", " ", "!", " ", "0">>
    /\ IsBang(program[1].expression)
    /\ IsBang(program[1].expression.right.v)
    /\ IsSome(result, Object_Bool(TRUE))

\* the two results of eval are the same
SameResult(a, b) ==
    /\ a.tag = b.tag
    /\ a.tag = "Some" => SameObject(a.v, b.v)

\* the truthiness the claim gives an object
Truthy(object) ==
    \/ object.kind = "Int"
    \/ object.kind = "Bool" /\ object.value
    \/ object.kind \notin {"Int", "Bool", "Null"}

\* C15: when the program is an if-expression whose condition has a value and
\* the program has been evaluated, the result is that of the consequence
\* when the condition is an Integer (0 too), Boolean(true) or any object other
\* than Boolean(false) and Null, and else that of the alternative (no result
\* when there is none).
C15_TruthinessOfConditions ==
    (/\ pc = "eval_program"
     /\ idx = 2
     /\ Len(program) = 1
     /\ program[1].node = "Expression"
     /\ program[1].expression.node = "If"
     /\ eval(ExpressionStatement(program[1].expression.condition)).tag = "Some")
        => LET e == program[1].expression
               condition == eval(ExpressionStatement(e.condition)).v
           IN IF Truthy(condition) THEN SameResult(result, eval(e.consequence))
              ELSE IF e.alternative.tag = "Some"
              THEN SameResult(result, eval(e.alternative.v))
              ELSE result.tag = "None"

\* `if (0) { 10 } else { 20 }` has been evaluated to 10
C15_Witness ==
    /\ pc = "eval_program"
    /\ idx = 2
    /\ Len(program) = 1
    /\ program[1].node = "Expression"
    /\ program[1].expression.node = "If"
    /\ program[1].expression.condition.node = "Integer"
    /\ program[1].expression.condition.value = 0
    /\ program[1].expression.alternative.tag = "Some"
    /\ IsSome(result, Object_Int(10))

(***************************************************************************)
(* Standard arithmetic on a token sequence, by the grammar                 *)
(*   sum     ::= product (("+" | "-") product)*                            *)
(*   product ::= unary (("*" | "/") unary)*                                *)
(*   unary   ::= "-" unary | Int | "(" sum ")"                             *)
(* A value is [ok, v, rest]: ok is FALSE when the tokens are no such       *)
(* expression, a divisor is zero or a value leaves the range of i64.       *)
(***************************************************************************)
Undefined == [ok |-> FALSE, v |-> 0, rest |-> <<>>]

Defined(v, rest) ==
    IF i64_MIN <= v /\ v <= i64_MAX THEN [ok |-> TRUE, v |-> v, rest |-> rest]
    ELSE Undefined

Magnitude(n) == IF n < 0 THEN -n ELSE n

\* the quotient q of l = q * r + m with |m| < |r| and m zero or of the sign of l
Quotient(l, r) ==
    CHOOSE q \in -Magnitude(l)..Magnitude(l) :
        LET m == l - q * r
        IN Magnitude(m) < Magnitude(r) /\ (m = 0 \/ (m < 0) = (l < 0))

StartsWith(ts, types) == ts # <<>> /\ Head(ts).token_type \in types

RECURSIVE Sum(_), SumRest(_, _), Product(_), ProductRest(_, _), Unary(_)
Unary(ts) ==
    IF StartsWith(ts, {"Minus"})
    THEN LET u == Unary(Tail(ts)) IN IF u.ok THEN Defined(-u.v, u.rest) ELSE Undefined
    ELSE IF StartsWith(ts, {"Int"})
    THEN LET n == parse_i64(Head(ts).literal)
         IN IF n.tag = "Some" THEN Defined(n.v, Tail(ts)) ELSE Undefined
    ELSE IF StartsWith(ts, {"LParen"})
    THEN LET e == Sum(Tail(ts))
         IN IF e.ok /\ StartsWith(e.rest, {"RParen"}) THEN Defined(e.v, Tail(e.rest))
            ELSE Undefined
    ELSE Undefined

ProductRest(left, ts) ==
    IF ~StartsWith(ts, {"Asterisk", "Slash"}) THEN Defined(left, ts)
    ELSE LET u == Unary(Tail(ts))
         IN IF ~u.ok THEN Undefined
            ELSE IF Head(ts).token_type = "Asterisk"
            THEN LET p == Defined(left * u.v, u.rest)
                 IN IF p.ok THEN ProductRest(p.v, p.rest) ELSE Undefined
            ELSE IF u.v = 0 THEN Undefined
            ELSE LET q == Defined(Quotient(left, u.v), u.rest)
                 IN IF q.ok THEN ProductRest(q.v, q.rest) ELSE Undefined

Product(ts) ==
    LET u == Unary(ts) IN IF u.ok THEN ProductRest(u.v, u.rest) ELSE Undefined

SumRest(left, ts) ==
    IF ~StartsWith(ts, {"Plus", "Minus"}) THEN Defined(left, ts)
    ELSE LET p == Product(Tail(ts))
         IN IF ~p.ok THEN Undefined
            ELSE LET t == Defined(IF Head(ts).token_type = "Plus" THEN left + p.v
                                  ELSE left - p.v, p.rest)
                 IN IF t.ok THEN SumRest(t.v, t.rest) ELSE Undefined

Sum(ts) ==
    LET p == Product(ts) IN IF p.ok THEN SumRest(p.v, p.rest) ELSE Undefined

\* the tokens of the text are one arithmetic expression with a value
IsArithmetic(text) ==
    LET e == Sum(Tokens(text, 0)) IN e.ok /\ e.rest = <<>>

\* C16: when the source text is one expression of integer literals, prefix
\* minus, + - * / and parentheses whose standard value is defined (no zero
\* divisor, no overflow), parsing records no diagnostic and does not hang,
\* eval_program does not abort, and the value it returns is the Integer of
\* standard arithmetic with truncating division.
C16_StandardArithmetic ==
    (input # <<>> /\ pc # "lex" /\ IsArithmetic(input))
        => /\ pc \notin {"hang", "eval_panic", "fmt_panic"}
           /\ parser.errors = <<>>
           /\ pc \in {"evaluated", "done"}
                 => /\ value.kind = "Int"
                    /\ value.value = Sum(Tokens(input, 0)).v

\* `50 / 2 * 2 + 10` has been evaluated to 60, and `- 7 / 2` to -3
C16_Witness ==
    /\ pc = "evaluated"
    /\ value.kind = "Int"
    /\ \/ /\ input = Join(<<<<"5", "0">>, <<"/">>, <<"2">>, <<"*">>, <<"2">>, <<"+">>,
                             <<"1", "0">>>>)
          /\ value.value = 60
       \/ /\ input = Join(<<<<"-">>, <<"7">>, <<"/">>, <<"2">>>>)
          /\ value.value = -3

\* C17: in the tokens the lexing client has been given, every token after an
\* Eof token is an Eof token with an empty literal.
C17_EofIsRepeated ==
    \A i \in DOMAIN lexed, j \in DOMAIN lexed :
        (i < j /\ lexed[i].token_type = "Eof") => lexed[j] = Token("Eof", <<>>)

\* next_token has returned Eof at the end of a text with tokens in it, and
\* has been called twice more
C17_Witness ==
    /\ Len(lexed) >= 4
    /\ lexed[1].token_type # "Eof"
    /\ lexed[Len(lexed) - 2].token_type = "Eof"
    /\ lexed[Len(lexed)] = Token("Eof", <<>>)

\* the characters no arm of next_token but `Some(_)` takes, among LexChars
IsIllegalCharacter(c) ==
    /\ ~IsWhitespace(c)
    /\ ~IsAlphabetic(c)
    /\ ~IsAsciiDigit(c)
    /\ c \notin {"_", "=", "{", "}", "+", "-", "<", ">", "!", "*", "/", ",", ";", "(", ")"}

\* C18 (stated as the claim states it): every Illegal token the lexing client
\* has been given has as its literal exactly one character, a character of
\* the input that no other kind of token starts with.
C18_IllegalCarriesItsCharacter ==
    \A i \in DOMAIN lexed :
        lexed[i].token_type = "Illegal"
            => /\ Len(lexed[i].literal) = 1
               /\ IsIllegalCharacter(lexed[i].literal[1])
               /\ \E k \in DOMAIN input : input[k] = lexed[i].literal[1]

\* the character at index k (from 0) of the text, "" past its end
CharAt(text, k) == IF k < Len(text) THEN text[k + 1] ELSE ""

\* C19: a call of next_token that finds `=` after the white space returns Eq
\* with literal `==` and consumes two characters when the next character is
\* `=`, and else returns Assign and consumes one; a call that finds `!`
\* returns NotEq with literal `!=` and consumes two characters when the next
\* character is `=`, and else returns Bang and consumes one.
C19_MaximalMunch ==
    [][(pc = "lex" /\ lexed' # lexed) =>
         LET start == skip_whitespace(input, lexer)
             first == CharAt(input, start)
             second == CharAt(input, start + 1)
             token == lexed'[Len(lexed')]
         IN /\ (first = "=" /\ second = "=")
                  => token = Token("Eq", <<"=", "=">>) /\ lexer' = start + 2
            /\ (first = "=" /\ second # "=")
                  => token = Token("Assign", <<"=">>) /\ lexer' = start + 1
            /\ (first = "!" /\ second = "=")
                  => token = Token("NotEq", <<"!", "=">>) /\ lexer' = start + 2
            /\ (first = "!" /\ second # "=")
                  => token = Token("Bang", <<"!">>) /\ lexer' = start + 1]_vars

\* `===` has been lexed as Eq, Assign and `!==` as NotEq, Assign
C19_Witness ==
    /\ Len(lexed) = 2
    /\ lexer = 3
    /\ lexed[2] = Token("Assign", <<"=">>)
    /\ \/ input = <<"=", "=", "=">> /\ lexed[1] = Token("Eq", <<"=", "=">>)
       \/ input = <<"!", "=", "=">> /\ lexed[1] = Token("NotEq", <<"!", "=">>)

\* C20 (stated as the claim states it): the literal of every Int token the
\* lexing client has been given consists of ASCII digits only, a character
\* that is numeric without being an ASCII digit ending the run.
C20_IntIsARunOfAsciiDigits ==
    \A i \in DOMAIN lexed :
        lexed[i].token_type = "Int"
            => \A k \in DOMAIN lexed[i].literal : IsAsciiDigit(lexed[i].literal[k])

\* a character of a word: a letter, a digit or an underscore
IsWordCharacter(c) == IsAlphabetic(c) \/ IsNumeric(c) \/ c = "_"

\* the end of the maximal run of word characters of the text from index start
EndOfRun(text, start) ==
    CHOOSE end \in start..Len(text) :
        /\ \A k \in start..(end - 1) : IsWordCharacter(CharAt(text, k))
        /\ end = Len(text) \/ ~IsWordCharacter(CharAt(text, end))

\* the keyword table
KeywordType(run) ==
    CASE run = <<"f", "n">> -> "Function"
      [] run = <<"l", "e", "t">> -> "Let"
      [] run = <<"t", "r", "u", "e">> -> "True"
      [] run = <<"f", "a", "l", "s", "e">> -> "False"
      [] run = <<"i", "f">> -> "If"
      [] run = <<"e", "l", "s", "e">> -> "Else"
      [] run = <<"r", "e", "t", "u", "r", "n">> -> "Return"
      [] OTHER -> "Ident"

\* C21: a call of next_token that finds a letter or an underscore after the
\* white space returns a token whose literal is the maximal run of letters,
\* digits and underscores from there, consumes exactly that run, and gives
\* the token a keyword type only when the whole run is the keyword, else
\* Ident.
C21_WordsAreScannedWhole ==
    [][(pc = "lex" /\ lexed' # lexed) =>
         LET start == skip_whitespace(input, lexer)
             first == CharAt(input, start)
             end == EndOfRun(input, start)
             run == SubSeq(input, start + 1, end)
             token == lexed'[Len(lexed')]
         IN (IsAlphabetic(first) \/ first = "_")
               => /\ token.literal = run
                  /\ token.token_type = KeywordType(run)
                  /\ lexer' = end]_vars

\* `letx`, `if_` and `x1` have each been lexed as one Ident, and `let` as Let
C21_Witness ==
    /\ Len(lexed) = 2
    /\ lexed[2] = Token("Eof", <<>>)
    /\ input \in {<<"l", "e", "t", "x">>, <<"i", "f", "_">>, <<"x", "1">>}
    /\ lexed[1] = Token("Ident", input)

\* the diagnostic of a failed expect_peek
Expected(expected, got) ==
    "expected next token to be " \o expected \o ", got " \o got \o " instead"

\* C22: an iteration of parse_program that starts on `let` with a token other
\* than an Ident next, or with an Ident next and a token other than `=` after
\* it, appends exactly the one diagnostic naming the expected and the actual
\* token kind, adds no statement, leaves as the current token the one the
\* failing expect_peek met (the iteration's own next_token moved onto it and
\* no further), and parse_program goes on.
C22_LetMismatchIsOneDiagnostic ==
    [][(pc = "parse_program" /\ parser' # parser /\ curr_token_is(parser, "Let")) =>
         LET second == parser.peek_token
             third == Lexer_next_token(input, parser.position).tok
             failure(expected, got) ==
                 /\ parser'.errors = Append(parser.errors, Expected(expected, got.token_type))
                 /\ program' = program
                 /\ parser'.curr_token = got
                 /\ pc' = "parse_program"
         IN /\ second.token_type # "Ident" => failure("Ident", second)
            /\ (second.token_type = "Ident" /\ third.token_type # "Assign")
                  => failure("Assign", third)]_vars

\* `let 5 ; 9 ;` has been parsed: one diagnostic, no Let statement, and the
\* following statement `9 ;` is in the program
C22_Witness ==
    /\ pc = "parsed"
    /\ input = Join(<<w_let, <<"5">>, <<";">>, <<"9">>, <<";">>>>)
    /\ parser.errors = <<Expected("Ident", "Int")>>
    /\ Len(program) = 2
    /\ \A i \in 1..2 : program[i].node = "Expression"
    /\ program[2].expression.value = 9

\* The tokens of the text are an arithmetic expression with one parenthesised
\* group that lacks its `)`: the group runs to the end of the text.
IsUnclosedGroup(text) ==
    LET ts == Tokens(text, 0)
        closed == Sum(ts \o <<Token("RParen", <<")">>)>>)
    IN /\ Cardinality({i \in DOMAIN ts : ts[i].token_type = "LParen"}) = 1
       /\ \A i \in DOMAIN ts : ts[i].token_type # "RParen"
       /\ closed.ok
       /\ closed.rest = <<>>

\* C23 (stated as the claim states it): when the source text is an expression
\* with a parenthesised group that is not closed, parse_program returns with
\* one diagnostic recorded and with no statement in the program.
C23_UnclosedGroupFails ==
    (pc = "parsed" /\ input # <<>> /\ IsUnclosedGroup(input))
        => /\ Len(parser.errors) = 1
           /\ Len(program) = 0

\* the kind of node of a statement, that of its expression for an expression
\* statement
NodeOf(statement) ==
    IF statement.node = "Expression" THEN statement.expression.node ELSE statement.node

\* C24: when the source text is a statement whose parse fails followed by two
\* well-formed statements, parse_program does not stop or hang, a diagnostic
\* is recorded, and the returned Program ends with the two well-formed
\* statements in the order of the source.
C24_ParsingGoesOnAfterAFailure ==
    \A f \in FailedStatements, i \in DOMAIN WellFormedStatements,
       j \in DOMAIN WellFormedStatements :
        input = Join(RecoverySource(f, i, j))
            => /\ pc # "hang"
               /\ pc = "parsed"
                     => /\ parser.errors # <<>>
                        /\ Len(program) >= 2
                        /\ NodeOf(program[Len(program) - 1]) = WellFormedStatements[i].node
                        /\ NodeOf(program[Len(program)]) = WellFormedStatements[j].node

\* `( 5 + 5 ; 2 * 5 ; return 10 ;` has been parsed: the program is the infix
\* expression and the return statement
C24_Witness ==
    /\ pc = "parsed"
    /\ input = Join(RecoverySource(<<<<"(">>, <<"5">>, <<"+">>, <<"5">>, <<";">>>>, 2, 3))
    /\ Len(program) = 2
    /\ NodeOf(program[1]) = "Infix"
    /\ NodeOf(program[2]) = "Return"

\* the k-th token (from 1) of the lexer's stream for the text: its tokens,
\* then Eof for ever
StreamAt(text, k) ==
    IF k <= Len(Tokens(text, 0)) THEN Tokens(text, 0)[k] ELSE Token("Eof", <<>>)

\* the parser's two tokens are the k-th and the next of the stream
Window(p, k) ==
    /\ p.curr_token = StreamAt(input, k)
    /\ p.peek_token = StreamAt(input, k + 1)

\* C25: Parser::new leaves the first two tokens of the lexer's stream in
\* curr_token and peek_token; whatever the parser has done since, its two
\* tokens are two consecutive tokens of the stream, a call of next_token moves
\* both one token on, and when curr_token is Eof so is peek_token.
C25_TwoTokenWindow ==
    pc \notin {"new", "lex"}
        => /\ Window(Parser_new, 1)
           /\ \E k \in 1..(Len(Tokens(input, 0)) + 1) :
                 /\ Window(parser, k)
                 /\ Window(next_token(parser), k + 1)
           /\ curr_token_is(parser, "Eof") => peek_token_is(parser, "Eof")

\* parse_program is in the middle of a text of several statements
C25_Witness ==
    /\ pc = "parse_program"
    /\ Len(program) = 1
    /\ ~curr_token_is(parser, "Eof")
    /\ ~peek_token_is(parser, "Eof")
    /\ \E k \in 3..Len(Tokens(input, 0)) : Window(parser, k)

\* the text is an if-expression with a block
IsIfWithBlock(text) ==
    LET ts == Tokens(text, 0)
    IN /\ ts # <<>>
       /\ ts[1].token_type = "If"
       /\ \E i \in DOMAIN ts : ts[i].token_type = "LBrace"

\* C26 (stated as the claim states it): when the source text is an
\* if-expression with a block, closed by `}` or not, parsing the block comes
\* to an end; and for `if (true) { if (true) { 1 } 2 }` the inner block holds
\* the statement 1 only and the outer block the inner if-expression and then
\* the statement 2.
C26_BlocksEndAtTheirBrace ==
    (input # <<>> /\ pc # "lex" /\ IsIfWithBlock(input))
        => /\ pc # "hang"
           /\ (/\ pc = "parsed"
               /\ input = Join(IfSource(<<w_true>>,
                                         IfSource(<<w_true>>, <<<<"1">>>>) \o <<<<"2">>>>)))
                 => /\ Len(program) = 1
                    /\ NodeOf(program[1]) = "If"
                    /\ Len(program[1].expression.consequence.statements) = 2
                    /\ NodeOf(program[1].expression.consequence.statements[1]) = "If"
                    /\ NodeOf(program[1].expression.consequence.statements[2]) = "Integer"
                    /\ Len(program[1].expression.consequence.statements[1]
                              .expression.consequence.statements) = 1

(***************************************************************************)
(* The printed form of a token sequence read by the grammar                *)
(*   sum     ::= product (("+" | "-") product)*                            *)
(*   product ::= unary (("*" | "/") unary)*                                *)
(*   unary   ::= ("-" | "+") unary | Int | Ident | "(" sum ")"             *)
(* an infix operation printed as (left op right), a prefix one as the      *)
(* operator followed by its operand.  A value is [ok, text, rest].         *)
(***************************************************************************)
Unprinted == [ok |-> FALSE, text |-> "", rest |-> <<>>]

Printed(text, rest) == [ok |-> TRUE, text |-> text, rest |-> rest]

RECURSIVE PrintedSum(_), PrintedSumRest(_, _), PrintedProduct(_), PrintedProductRest(_, _),
          PrintedUnary(_)
PrintedUnary(ts) ==
    IF StartsWith(ts, {"Minus", "Plus"})
    THEN LET u == PrintedUnary(Tail(ts))
         IN IF u.ok THEN Printed(Str(Head(ts).literal) \o u.text, u.rest) ELSE Unprinted
    ELSE IF StartsWith(ts, {"Int", "Ident"}) THEN Printed(Str(Head(ts).literal), Tail(ts))
    ELSE IF StartsWith(ts, {"LParen"})
    THEN LET e == PrintedSum(Tail(ts))
         IN IF e.ok /\ StartsWith(e.rest, {"RParen"}) THEN Printed(e.text, Tail(e.rest))
            ELSE Unprinted
    ELSE Unprinted

PrintedProductRest(left, ts) ==
    IF ~StartsWith(ts, {"Asterisk", "Slash"}) THEN Printed(left, ts)
    ELSE LET u == PrintedUnary(Tail(ts))
         IN IF ~u.ok THEN Unprinted
            ELSE PrintedProductRest("(" \o left \o " " \o Str(Head(ts).literal) \o " "
                                       \o u.text \o ")", u.rest)

PrintedProduct(ts) ==
    LET u == PrintedUnary(ts) IN IF u.ok THEN PrintedProductRest(u.text, u.rest) ELSE Unprinted

PrintedSumRest(left, ts) ==
    IF ~StartsWith(ts, {"Plus", "Minus"}) THEN Printed(left, ts)
    ELSE LET q == PrintedProduct(Tail(ts))
         IN IF ~q.ok THEN Unprinted
            ELSE PrintedSumRest("(" \o left \o " " \o Str(Head(ts).literal) \o " "
                                   \o q.text \o ")", q.rest)

PrintedSum(ts) ==
    LET q == PrintedProduct(ts) IN IF q.ok THEN PrintedSumRest(q.text, q.rest) ELSE Unprinted

\* the tokens of the text are one such expression with a prefix operator in it
HasPrefixOperator(text) ==
    LET ts == Tokens(text, 0)
        e == PrintedSum(ts)
    IN /\ e.ok
       /\ e.rest = <<>>
       /\ \E i \in DOMAIN ts :
             /\ ts[i].token_type \in {"Minus", "Plus"}
             /\ i = 1 \/ ts[i - 1].token_type \notin {"Int", "Ident", "RParen"}

\* C27: when the source text is an expression of integers, identifiers,
\* + - * /, parentheses and prefix `-` or `+`, parse_program records no
\* diagnostic and returns the one expression in which every prefix operator
\* has as operand just the integer, identifier, parenthesised group or prefix
\* expression that follows it, and the binary operators apply to the results.
C27_PrefixBindsTightest ==
    (pc = "parsed" /\ input # <<>> /\ HasPrefixOperator(input))
        => /\ parser.errors = <<>>
           /\ ParsedAs(PrintedSum(Tokens(input, 0)).text)

\* `- x + y` has been parsed as ((-x) + y)
C27_Witness ==
    /\ pc = "parsed"
    /\ input = Join(<<<<"-">>, w_x, <<"+">>, w_y>>)
    /\ Len(program) = 1
    /\ NodeOf(program[1]) = "Infix"
    /\ program[1].expression.operator = "+"
    /\ program[1].expression.left.node = "Prefix"
    /\ program[1].expression.left.operator = "-"
    /\ program[1].expression.left.right.v.node = "Identifier"
    /\ program[1].expression.right.node = "Identifier"

\* the token types that start a statement: let, return, and the tokens with a
\* prefix parse rule
StartsAStatement ==
    {"Let", "Return", "Ident", "Int", "Plus", "Minus", "Bang", "True", "False", "LParen", "If",
     "Function"}

StrayParenText ==
    Join(<<<<"5">>, <<"+">>, <<"5">>, <<"+">>, <<"5">>, <<"+">>, <<"5">>, <<"-">>, <<"1", "0">>,
           <<")">>>>)

\* C28: an iteration of parse_program's loop whose current token is not Eof
\* and has no prefix parse rule appends no statement, records no diagnostic
\* and moves the parser one token on; `5 + 5 + 5 + 5 - 10)` is parsed to one
\* statement with no diagnostic and evaluated to the Integer 10.
C28_StrayTokenIsSkipped ==
    [][/\ (/\ pc = "parse_program"
            /\ parser.curr_token.token_type \notin StartsAStatement \cup {"Eof"})
           => /\ pc' = "parse_program"
              /\ Len(program') = Len(program)
              /\ parser'.errors = parser.errors
              /\ parser'.curr_token = parser.peek_token
       /\ (input = StrayParenText /\ pc' = "parsed")
           => /\ Len(program') = 1
              /\ parser'.errors = <<>>
       /\ (input = StrayParenText /\ pc' = "evaluated")
           => /\ value'.kind = "Int"
              /\ value'.value = 10]_vars

\* `5 + 5 + 5 + 5 - 10)` has been parsed to one statement, the `)` passed
\* over without a diagnostic, and evaluated to 10
C28_Witness ==
    /\ pc = "evaluated"
    /\ input = StrayParenText
    /\ Len(program) = 1
    /\ parser.errors = <<>>
    /\ parser.curr_token.token_type = "Eof"
    /\ value.kind = "Int"
    /\ value.value = 10

\* C29: a call of Lexer::next_token with the position before the end of the
\* input leaves it strictly further on, a call with the position at the end
\* leaves it there and returns Eof, the position (the lexing client's and the
\* parser's) is never beyond the length of the input, and an Eof is among
\* the first Len(input) + 1 tokens returned.
C29_LexerMakesProgress ==
    [][/\ lexed' # lexed
           => /\ lexer < Len(input) => lexer' > lexer
              /\ lexer = Len(input)
                    => /\ lexer' = lexer
                       /\ lexed'[Len(lexed')] = Token("Eof", <<>>)
       /\ lexer' <= Len(input)
       /\ parser'.position >= parser.position
       /\ parser'.position <= Len(input)
       /\ Len(lexed') >= Len(input) + 1
           => \E i \in 1..(Len(input) + 1) : lexed'[i].token_type = "Eof"]_vars

\* a text of the greatest length with a token in it has been lexed to its
\* end, where next_token has been called once more without moving
C29_Witness ==
    /\ pc = "lex"
    /\ Len(input) = MaxLexLen
    /\ lexer = Len(input)
    /\ Len(lexed) >= 3
    /\ lexed[1].token_type # "Eof"
    /\ lexed[Len(lexed) - 1].token_type = "Eof"
    /\ lexed[Len(lexed)].token_type = "Eof"

\* no statement of the sequence aborts or has a ReturnValue as its result
RunsWithoutReturn(statements) ==
    \A i \in DOMAIN statements :
        /\ eval(statements[i]).tag # "Panic"
        /\ eval(statements[i]).tag = "Some" => eval(statements[i]).v.kind # "ReturnValue"

\* the result of the last statement that has one, Null when there is none
RECURSIVE LastResult(_)
LastResult(statements) ==
    IF statements = <<>> THEN Object_Null
    ELSE LET r == eval(statements[Len(statements)])
         IN IF r.tag = "Some" THEN r.v
            ELSE LastResult(SubSeq(statements, 1, Len(statements) - 1))

\* the result of the last statement, Null when it has none or there is no
\* statement
ResultOfLast(statements) ==
    IF statements = <<>> THEN Object_Null
    ELSE LET r == eval(statements[Len(statements)])
         IN IF r.tag = "Some" THEN r.v ELSE Object_Null

BlockBodyText ==
    Join(<<w_if, <<"(">>, w_true, <<")">>, <<"{">>, <<"5">>, <<";">>, w_true, <<"+">>, <<"1">>,
           <<"}">>>>)

\* C30: when no statement of it returns or aborts, the consequence block of
\* an if-expression of the program has as its value the result of its last
\* statement that has a result (Null when none has), and an evaluated program
\* has as its value the result of its last statement, Null when that
\* statement has none or the program is empty; `5; true + 1` is Null as a
\* program and 5 as the body of `if (true) { ... }`.
C30_BlockKeepsLastResultProgramDoesNot ==
    /\ \A i \in DOMAIN program :
          (NodeOf(program[i]) = "If"
             /\ RunsWithoutReturn(program[i].expression.consequence.statements))
            => SameObject(eval_block_statement(program[i].expression.consequence.statements),
                          LastResult(program[i].expression.consequence.statements))
    /\ (pc = "evaluated" /\ RunsWithoutReturn(program))
          => SameObject(value, ResultOfLast(program))
    /\ (pc = "evaluated" /\ input = Join(<<<<"5">>, <<";">>, w_true, <<"+">>, <<"1">>>>))
          => value.kind = "Null"
    /\ (pc = "evaluated" /\ input = BlockBodyText)
          => value.kind = "Int" /\ value.value = 5

\* `if (true) { 5; true + 1 }` has been evaluated to 5: the block has two
\* statements, the second without a result
C30_Witness ==
    /\ pc = "evaluated"
    /\ input = BlockBodyText
    /\ Len(program) = 1
    /\ Len(program[1].expression.consequence.statements) = 2
    /\ eval(program[1].expression.consequence.statements[2]).tag = "None"
    /\ value.kind = "Int"
    /\ value.value = 5

====
